---- MODULE Spec2Model ----
(***************************************************************************)
(* State-machine model of the abuse-prevention core of the pump.fun bot:   *)
(* BotSecurityMonitor (src/security.py) and the gated handlers of          *)
(* PumpFunBot (src/bot.py).  Time is the wall clock in whole seconds.      *)
(***************************************************************************)
EXTENDS Integers, Sequences, FiniteSets, TLC

(***************************************************************************)
(* Program constants.                                                      *)
(***************************************************************************)
SecondsPerMinute == 60
DequeMaxLen == 10
HourSeconds == 3600
RecentSeconds == 300
HourlyLimit == 20
RecentLimit == 10

(***************************************************************************)
(* Bounds of the model.                                                    *)
(***************************************************************************)
MaxTicks == 3
MaxPatterns == 21
DeniedCap == 2
MaxOps == 2
MaxTasks == 3
GateMaxTicks == 1
AcceptedKept == 3
HandlerMaxOps == 6
HandlerMaxTicks == 3
BurstMaxPatterns == 12
BurstMaxTicks == 2
MaxNameChanges == 2

\* user ids the transport layer supplies
Users == {1, 2}
\* the one user the throttle-only specification drives
ThrottleUsers == {1}
\* max_requests / window_minutes arguments of direct is_rate_limited calls
MaxRequestsArgs == {0, 1, 3, 11}
WindowArgs == {1, 2}
\* clock advances between two calls, in seconds
ThrottleSteps == {30, 60}
GateCommands == {"start"}
\* max_requests arguments of direct is_rate_limited calls beside the handlers
GateMaxRequestsArgs == {1}
\* the one user the profiler-only specification drives
ProfilerUsers == {1}
\* command names recorded by check_suspicious_activity
Commands == {"start", "rapid"}
ProfilerSteps == {300, 3300}
\* clock advances inside one five-minute slice
BurstSteps == {150}

VARIABLES
    now,               \* the wall clock: time.time() / datetime.now()
    ticks,             \* number of clock advances so far
    user_requests,     \* defaultdict: user_id -> deque(maxlen=10) of timestamps
    request_patterns,  \* defaultdict: user_id -> list of <<command, timestamp>>
    suspicious_users,  \* set of user ids
    blocked_users,     \* set of user ids
    security_stats,    \* dict of counters and start_time
    ret,               \* the last operation, its arguments and what it returned
    streak,            \* history variable, per user: the run of same-parameter
                       \* throttle calls that started on an empty history
    last_accept,       \* history variable, per user: clock reading of the most
                       \* recent accepted is_rate_limited call (-1: none yet)
    denied,            \* history variable, per user: rejected is_rate_limited
                       \* calls since that accepted call (counted up to DeniedCap)
    accepted_at,       \* history variable, per user: clock readings of the
                       \* latest AcceptedKept accepted is_rate_limited calls
    block_calls,       \* history variable, per user: block_user calls so far
    allowed,           \* history variable: handler invocations that ended in allow
    served,            \* history variable: <<handler, user id, clock reading>>
                       \* of each handler invocation that ended in allow
    ops,               \* history variable: handler invocations so far
    calls,             \* per caller: the position and locals of an
                       \* is_rate_limited call that runs step by step
    tasks              \* per handler coroutine: its position (not started,
                       \* suspended at its await number `at`, finished) and
                       \* its verdict

vars == <<now, ticks, user_requests, request_patterns, suspicious_users,
          blocked_users, security_stats, ret, streak, last_accept, denied,
          accepted_at, block_calls, allowed, served, ops, calls, tasks>>

\* the state BotSecurityMonitor holds
security == <<user_requests, request_patterns, suspicious_users, blocked_users,
              security_stats>>
\* the history variables of the throttle
throttle_history == <<streak, last_accept, denied, accepted_at>>

NoStreak == [m |-> 0, w |-> 0, first |-> 0, n |-> 0]

\* the handler coroutines the event loop may hold at the same time
Tasks == 1..MaxTasks
\* a coroutine that has not been started
NotStarted ==
    [pc |-> "idle", op |-> "none", user |-> 0, verdict |-> "none", at |-> 0]

\* the callers that may run is_rate_limited at the same time
Callers == {1, 2, 3}
\* a caller that has not entered is_rate_limited
Idle == [pc |-> "idle", user |-> 0, m |-> 0, w |-> 0, t |-> 0, start |-> 0,
         result |-> FALSE, ref |-> 0, own |-> <<>>, in_dict |-> FALSE]

(***************************************************************************)
(* defaultdict and deque helpers.                                          *)
(***************************************************************************)
\* d[k] of a defaultdict whose factory yields an empty sequence
Get(d, k) == IF k \in DOMAIN d THEN d[k] ELSE <<>>

\* mutant of Put: the write keeps no other key of the dict
PutAlone(d, k, v) == [x \in {k} |-> v]

\* d[k] = v, creating the key when it is missing
Put(d, k, v) == [x \in (DOMAIN d) \cup {k} |-> IF x = k THEN v ELSE d[x]]

\* mutant of DequeAppend: a deque built without maxlen
DequeAppendUnbounded(dq, x) == Append(dq, x)

\* mutant of DequeAppend: appendleft in place of append
DequeAppendLeft(dq, x) ==
    IF Len(dq) >= DequeMaxLen
    THEN <<x>> \o SubSeq(dq, 1, Len(dq) - 1)
    ELSE <<x>> \o dq

\* deque.append on a deque(maxlen=10): a full deque drops its oldest entry
DequeAppend(dq, x) ==
    IF Len(dq) >= DequeMaxLen THEN Append(Tail(dq), x) ELSE Append(dq, x)

\* mutant of PopOld: <= in place of < in the loop condition
RECURSIVE PopOldInclusive(_, _)
PopOldInclusive(dq, start) ==
    IF dq /= <<>> /\ Head(dq) <= start
    THEN PopOldInclusive(Tail(dq), start) ELSE dq

\* mutant of PopOld: an `if` in place of the `while`, one entry popped at most
PopOldOnce(dq, start) ==
    IF dq /= <<>> /\ Head(dq) < start THEN Tail(dq) ELSE dq

\* while user_deque and user_deque[0] < window_start: user_deque.popleft()
RECURSIVE PopOld(_, _)
PopOld(dq, start) ==
    IF dq /= <<>> /\ Head(dq) < start THEN PopOld(Tail(dq), start) ELSE dq

(***************************************************************************)
(* BotSecurityMonitor.is_rate_limited                                      *)
(***************************************************************************)
window_start(window_minutes) == now - (window_minutes * SecondsPerMinute)

\* the user's deque after the cleaning loop
user_deque(user_id, window_minutes) ==
    PopOld(Get(user_requests, user_id), window_start(window_minutes))

\* mutant of RateLimitedResult: the request being checked is counted too
RateLimitedResultCountsSelf(user_id, max_requests, window_minutes) ==
    Len(user_deque(user_id, window_minutes)) + 1 >= max_requests

\* the value is_rate_limited returns
RateLimitedResult(user_id, max_requests, window_minutes) ==
    Len(user_deque(user_id, window_minutes)) >= max_requests

\* mutant of RateLimitedDeque: the timestamp is appended before the check
RateLimitedDequeAlways(user_id, max_requests, window_minutes) ==
    DequeAppend(user_deque(user_id, window_minutes), now)

\* the user's deque when is_rate_limited returns
RateLimitedDeque(user_id, max_requests, window_minutes) ==
    IF RateLimitedResult(user_id, max_requests, window_minutes)
    THEN user_deque(user_id, window_minutes)
    ELSE DequeAppend(user_deque(user_id, window_minutes), now)

\* history variable: how many same-parameter calls in a row, all inside one
\* window, the user has made since a call that found no history
StreakAfter(user_id, max_requests, window_minutes) ==
    LET s == streak[user_id] IN
    IF Get(user_requests, user_id) = <<>>
    THEN [m |-> max_requests, w |-> window_minutes, first |-> now, n |-> 1]
    ELSE IF /\ s.n > 0
            /\ s.n <= s.m
            /\ s.m = max_requests
            /\ s.w = window_minutes
            /\ now <= s.first + window_minutes * SecondsPerMinute
         THEN [s EXCEPT !.n = s.n + 1]
         ELSE NoStreak

\* the latest AcceptedKept entries of a sequence
KeepLast(h) ==
    IF Len(h) > AcceptedKept THEN SubSeq(h, Len(h) - AcceptedKept + 1, Len(h)) ELSE h

\* the history variables of the throttle after one is_rate_limited call
ThrottleObserved(user_id, max_requests, window_minutes) ==
    LET limited == RateLimitedResult(user_id, max_requests, window_minutes) IN
    /\ streak' = [streak EXCEPT ![user_id] =
                      StreakAfter(user_id, max_requests, window_minutes)]
    /\ last_accept' = IF limited THEN last_accept
                      ELSE [last_accept EXCEPT ![user_id] = now]
    /\ denied' = [denied EXCEPT ![user_id] =
                      IF ~limited THEN 0
                      ELSE IF @ < DeniedCap THEN @ + 1 ELSE @]
    /\ accepted_at' = IF limited THEN accepted_at
                      ELSE [accepted_at EXCEPT ![user_id] = KeepLast(Append(@, now))]

\* what one is_rate_limited call does to the monitor and the history variables
Throttle(user_id, max_requests, window_minutes) ==
    /\ user_requests' = Put(user_requests, user_id,
                            RateLimitedDeque(user_id, max_requests, window_minutes))
    /\ ThrottleObserved(user_id, max_requests, window_minutes)

is_rate_limited(user_id, max_requests, window_minutes) ==
    /\ Throttle(user_id, max_requests, window_minutes)
    /\ ret' = [op |-> "is_rate_limited", user |-> user_id, m |-> max_requests,
               w |-> window_minutes, after |-> denied[user_id],
               last |-> last_accept[user_id],
               result |-> RateLimitedResult(user_id, max_requests, window_minutes)]
    /\ UNCHANGED <<calls, now, ticks, request_patterns, suspicious_users,
                   blocked_users, security_stats, block_calls, allowed, served>>

(***************************************************************************)
(* BotSecurityMonitor.is_rate_limited statement by statement, as callers   *)
(* that share the monitor and take no lock run it: a caller may be         *)
(* preempted between any two statements.                                   *)
(***************************************************************************)
\* what the steps of a running call leave alone
call_frame == <<now, ticks, request_patterns, suspicious_users, blocked_users,
                security_stats, ret, throttle_history, block_calls, allowed,
                served, ops, tasks>>

\* The local variable user_deque of a running call is a reference to a
\* deque object.  calls[c].ref names the object: 0 is the deque the dict held
\* before any running call, d > 0 the deque that caller d's miss created.
\* calls[d].in_dict tells that d's deque is the one stored in the dict (its
\* contents are user_requests[user] then); calls[d].own holds its contents
\* once another caller's store has put a different deque in its place.

\* the caller whose deque the dict holds for a user, 0 when none of them
Stored(user_id) ==
    IF \E d \in Callers : calls[d].in_dict /\ calls[d].user = user_id
    THEN CHOOSE d \in Callers : calls[d].in_dict /\ calls[d].user = user_id
    ELSE 0

\* the deque object is the one the dict holds
Attached(c) ==
    IF calls[c].ref = 0 THEN TRUE ELSE calls[calls[c].ref].in_dict

\* the contents of the deque a caller's user_deque refers to
caller_deque(c) ==
    IF Attached(c) THEN user_requests[calls[c].user] ELSE calls[calls[c].ref].own

\* the dict after the caller's deque got new contents
DictAfter(c, dq) ==
    IF Attached(c) THEN [user_requests EXCEPT ![calls[c].user] = dq]
    ELSE user_requests

\* the callers' records after the caller's deque got new contents
CallsAfter(c, dq) ==
    IF Attached(c) THEN calls ELSE [calls EXCEPT ![calls[c].ref].own = dq]

\* now = time.time(); window_start = now - (window_minutes * 60)
RateBegin(c, user_id, max_requests, window_minutes) ==
    /\ calls[c].pc = "idle"
    /\ calls' = [calls EXCEPT ![c] =
                    [pc |-> "lookup", user |-> user_id, m |-> max_requests,
                     w |-> window_minutes, t |-> now,
                     start |-> window_start(window_minutes), result |-> FALSE,
                     ref |-> 0, own |-> <<>>, in_dict |-> FALSE]]
    /\ UNCHANGED <<user_requests, call_frame>>

\* self.user_requests[user_id] looks the key up: a hit binds user_deque to
\* the stored deque, a miss enters defaultdict.__missing__, which calls the
\* factory lambda
RateLookup(c) ==
    /\ calls[c].pc = "lookup"
    /\ LET u == calls[c].user IN
       calls' = IF u \in DOMAIN user_requests
                THEN [calls EXCEPT ![c].pc = "clean", ![c].ref = Stored(u)]
                ELSE [calls EXCEPT ![c].pc = "missing", ![c].ref = c]
    /\ UNCHANGED <<user_requests, call_frame>>

\* the factory's deque(maxlen=10) is stored under the key, in place of a
\* deque another caller's miss stored in the meantime, and bound to user_deque
RateMissing(c) ==
    /\ calls[c].pc = "missing"
    /\ LET u == calls[c].user
           d == Stored(u)
           detached == IF d = 0 THEN calls
                       ELSE [calls EXCEPT ![d].in_dict = FALSE,
                                          ![d].own = user_requests[u]]
       IN calls' = [detached EXCEPT ![c].pc = "clean", ![c].in_dict = TRUE]
    /\ user_requests' = Put(user_requests, calls[c].user, <<>>)
    /\ UNCHANGED call_frame

\* while user_deque and user_deque[0] < window_start:
RateCleanTest(c) ==
    /\ calls[c].pc = "clean"
    /\ LET dq == caller_deque(c) IN
       calls' = [calls EXCEPT ![c].pc =
                    IF dq /= <<>> /\ Head(dq) < calls[c].start
                    THEN "pop" ELSE "check"]
    /\ UNCHANGED <<user_requests, call_frame>>

\* user_deque.popleft(); on an empty deque it raises IndexError
RatePop(c) ==
    /\ calls[c].pc = "pop"
    /\ LET dq == caller_deque(c) IN
       IF dq = <<>>
       THEN /\ calls' = [calls EXCEPT ![c].pc = "raised"]
            /\ UNCHANGED user_requests
       ELSE /\ calls' = [CallsAfter(c, Tail(dq)) EXCEPT ![c].pc = "clean"]
            /\ user_requests' = DictAfter(c, Tail(dq))
    /\ UNCHANGED call_frame

\* if len(user_deque) >= max_requests: return True
RateCheck(c) ==
    /\ calls[c].pc = "check"
    /\ LET dq == caller_deque(c) IN
       calls' = IF Len(dq) >= calls[c].m
                THEN [calls EXCEPT ![c].pc = "done", ![c].result = TRUE]
                ELSE [calls EXCEPT ![c].pc = "append"]
    /\ UNCHANGED <<user_requests, call_frame>>

\* user_deque.append(now); return False
RateAppend(c) ==
    /\ calls[c].pc = "append"
    /\ LET dq == DequeAppend(caller_deque(c), calls[c].t) IN
       /\ user_requests' = DictAfter(c, dq)
       /\ calls' = [CallsAfter(c, dq) EXCEPT ![c].pc = "done",
                                             ![c].result = FALSE]
    /\ UNCHANGED call_frame

(***************************************************************************)
(* BotSecurityMonitor.check_suspicious_activity                            *)
(***************************************************************************)
\* the user's pattern list after the append and the one-hour cleaning
patterns(user_id, command) ==
    SelectSeq(Append(Get(request_patterns, user_id), <<command, now>>),
              LAMBDA p : p[2] > now - HourSeconds)

\* mutant of recent: only the repeats of the command just recorded count
recentSameCommand(user_id, command) ==
    SelectSeq(patterns(user_id, command),
              LAMBDA p : p[2] > now - RecentSeconds /\ p[1] = command)

\* the entries of the trailing five minutes
recent(user_id, command) ==
    SelectSeq(patterns(user_id, command), LAMBDA p : p[2] > now - RecentSeconds)

\* mutant of SuspiciousResult: a user flagged earlier is reported again
SuspiciousResultLatched(user_id, command) ==
    IF user_id \in suspicious_users
    THEN TRUE
    ELSE IF Len(patterns(user_id, command)) > HourlyLimit
         THEN TRUE
         ELSE Len(recent(user_id, command)) > RecentLimit

\* mutant of SuspiciousResult: >= in place of > in the hourly comparison
SuspiciousResultOffByOne(user_id, command) ==
    IF Len(patterns(user_id, command)) >= HourlyLimit
    THEN TRUE
    ELSE Len(recent(user_id, command)) > RecentLimit

\* the value check_suspicious_activity returns
SuspiciousResult(user_id, command) ==
    IF Len(patterns(user_id, command)) > HourlyLimit
    THEN TRUE
    ELSE Len(recent(user_id, command)) > RecentLimit

\* mutant of Profile: the flag follows the result of the current call
ProfileUnlatched(user_id, command) ==
    /\ request_patterns' = Put(request_patterns, user_id, patterns(user_id, command))
    /\ suspicious_users' = IF SuspiciousResult(user_id, command)
                           THEN suspicious_users \cup {user_id}
                           ELSE suspicious_users \ {user_id}

\* what one check_suspicious_activity call does to the monitor
Profile(user_id, command) ==
    /\ request_patterns' = Put(request_patterns, user_id, patterns(user_id, command))
    /\ suspicious_users' = IF SuspiciousResult(user_id, command)
                           THEN suspicious_users \cup {user_id}
                           ELSE suspicious_users

check_suspicious_activity(user_id, command) ==
    /\ Profile(user_id, command)
    /\ ret' = [op |-> "check_suspicious_activity", user |-> user_id,
               command |-> command, result |-> SuspiciousResult(user_id, command)]
    /\ UNCHANGED <<calls, now, ticks, user_requests, blocked_users, security_stats,
                   throttle_history, block_calls, allowed, served>>

(***************************************************************************)
(* BotSecurityMonitor.is_user_blocked / block_user                         *)
(***************************************************************************)
\* mutant of IsBlockedResult: a flagged user counts as blocked
IsBlockedResultFlagged(user_id) ==
    user_id \in blocked_users \cup suspicious_users

\* the value is_user_blocked returns
IsBlockedResult(user_id) == user_id \in blocked_users

is_user_blocked(user_id) ==
    /\ ret' = [op |-> "is_user_blocked", user |-> user_id,
               result |-> IsBlockedResult(user_id)]
    /\ UNCHANGED <<calls, now, ticks, security, throttle_history, block_calls,
                   allowed, served>>

\* mutant of BlockStats: the counter moves only for a newly blocked user
BlockStatsOnce(user_id) ==
    IF user_id \in blocked_users
    THEN security_stats
    ELSE [security_stats EXCEPT !.blocked_requests = @ + 1]

\* security_stats after self.security_stats['blocked_requests'] += 1
BlockStats(user_id) == [security_stats EXCEPT !.blocked_requests = @ + 1]

\* mutant of BlockedAfter: the set is replaced, not extended
BlockedAfterOnly(user_id) == {user_id}

\* blocked_users after self.blocked_users.add(user_id)
BlockedAfter(user_id) == blocked_users \cup {user_id}

\* what one block_user call does to the monitor and the history variable
Block(user_id) ==
    /\ blocked_users' = BlockedAfter(user_id)
    /\ security_stats' = BlockStats(user_id)
    /\ block_calls' = [block_calls EXCEPT ![user_id] = @ + 1]

block_user(user_id, reason) ==
    /\ Block(user_id)
    /\ ret' = [op |-> "block_user", user |-> user_id, reason |-> reason]
    /\ UNCHANGED <<calls, now, ticks, user_requests, request_patterns,
                   suspicious_users, throttle_history, allowed, served>>

(***************************************************************************)
(* BotSecurityMonitor.validate_user_data                                   *)
(* A user is a record; `present` is false for None.  A username is the     *)
(* sequence of its characters, empty for None or "".  A character is its   *)
(* code point: 97 for a, 8490 for the Kelvin sign.                         *)
(***************************************************************************)
None == [present |-> FALSE, id |-> 0, username |-> <<>>, is_bot |-> FALSE]

User(id, username, is_bot) ==
    [present |-> TRUE, id |-> id, username |-> username, is_bot |-> is_bot]

UpperCase == [i \in 1..26 |-> 64 + i]
LowerCase == [i \in 1..26 |-> 96 + i]

\* the Kelvin sign (lower-cased to k), I with dot above (lower-cased to i and
\* a combining dot), capital sigma, the two small sigmas, long s, the
\* combining dot above
KelvinSign == 8490
DottedI == 304
CapitalSigma == 931
SmallSigma == 963
FinalSmallSigma == 962
LongS == 383
CombiningDot == 775

\* the simple lower-case mappings of the Unicode database str.lower reads
\* (CPython 3.11, Unicode 14.0), all code points: <<first, last, step,
\* offset>> stands for first, first + step, ..., last, each lower-cased to
\* itself plus offset
LowerRuns ==
    << <<65, 90, 1, 32>>, <<192, 214, 1, 32>>, <<216, 222, 1, 32>>,
       <<256, 302, 2, 1>>, <<306, 310, 2, 1>>, <<313, 327, 2, 1>>,
       <<330, 374, 2, 1>>, <<376, 376, 1, -121>>, <<377, 381, 2, 1>>,
       <<385, 385, 1, 210>>, <<386, 388, 2, 1>>, <<390, 390, 1, 206>>,
       <<391, 391, 1, 1>>, <<393, 394, 1, 205>>, <<395, 395, 1, 1>>,
       <<398, 398, 1, 79>>, <<399, 399, 1, 202>>, <<400, 400, 1, 203>>,
       <<401, 401, 1, 1>>, <<403, 403, 1, 205>>, <<404, 404, 1, 207>>,
       <<406, 406, 1, 211>>, <<407, 407, 1, 209>>, <<408, 408, 1, 1>>,
       <<412, 412, 1, 211>>, <<413, 413, 1, 213>>, <<415, 415, 1, 214>>,
       <<416, 420, 2, 1>>, <<422, 422, 1, 218>>, <<423, 423, 1, 1>>,
       <<425, 425, 1, 218>>, <<428, 428, 1, 1>>, <<430, 430, 1, 218>>,
       <<431, 431, 1, 1>>, <<433, 434, 1, 217>>, <<435, 437, 2, 1>>,
       <<439, 439, 1, 219>>, <<440, 440, 1, 1>>, <<444, 444, 1, 1>>,
       <<452, 452, 1, 2>>, <<453, 453, 1, 1>>, <<455, 455, 1, 2>>,
       <<456, 456, 1, 1>>, <<458, 458, 1, 2>>, <<459, 475, 2, 1>>,
       <<478, 494, 2, 1>>, <<497, 497, 1, 2>>, <<498, 500, 2, 1>>,
       <<502, 502, 1, -97>>, <<503, 503, 1, -56>>, <<504, 542, 2, 1>>,
       <<544, 544, 1, -130>>, <<546, 562, 2, 1>>, <<570, 570, 1, 10795>>,
       <<571, 571, 1, 1>>, <<573, 573, 1, -163>>, <<574, 574, 1, 10792>>,
       <<577, 577, 1, 1>>, <<579, 579, 1, -195>>, <<580, 580, 1, 69>>,
       <<581, 581, 1, 71>>, <<582, 590, 2, 1>>, <<880, 882, 2, 1>>,
       <<886, 886, 1, 1>>, <<895, 895, 1, 116>>, <<902, 902, 1, 38>>,
       <<904, 906, 1, 37>>, <<908, 908, 1, 64>>, <<910, 911, 1, 63>>,
       <<913, 929, 1, 32>>, <<931, 939, 1, 32>>, <<975, 975, 1, 8>>,
       <<984, 1006, 2, 1>>, <<1012, 1012, 1, -60>>, <<1015, 1015, 1, 1>>,
       <<1017, 1017, 1, -7>>, <<1018, 1018, 1, 1>>, <<1021, 1023, 1, -130>>,
       <<1024, 1039, 1, 80>>, <<1040, 1071, 1, 32>>, <<1120, 1152, 2, 1>>,
       <<1162, 1214, 2, 1>>, <<1216, 1216, 1, 15>>, <<1217, 1229, 2, 1>>,
       <<1232, 1326, 2, 1>>, <<1329, 1366, 1, 48>>, <<4256, 4293, 1, 7264>>,
       <<4295, 4295, 1, 7264>>, <<4301, 4301, 1, 7264>>,
       <<5024, 5103, 1, 38864>>, <<5104, 5109, 1, 8>>,
       <<7312, 7354, 1, -3008>>, <<7357, 7359, 1, -3008>>,
       <<7680, 7828, 2, 1>>, <<7838, 7838, 1, -7615>>, <<7840, 7934, 2, 1>>,
       <<7944, 7951, 1, -8>>, <<7960, 7965, 1, -8>>, <<7976, 7983, 1, -8>>,
       <<7992, 7999, 1, -8>>, <<8008, 8013, 1, -8>>, <<8025, 8031, 2, -8>>,
       <<8040, 8047, 1, -8>>, <<8072, 8079, 1, -8>>, <<8088, 8095, 1, -8>>,
       <<8104, 8111, 1, -8>>, <<8120, 8121, 1, -8>>, <<8122, 8123, 1, -74>>,
       <<8124, 8124, 1, -9>>, <<8136, 8139, 1, -86>>, <<8140, 8140, 1, -9>>,
       <<8152, 8153, 1, -8>>, <<8154, 8155, 1, -100>>, <<8168, 8169, 1, -8>>,
       <<8170, 8171, 1, -112>>, <<8172, 8172, 1, -7>>,
       <<8184, 8185, 1, -128>>, <<8186, 8187, 1, -126>>,
       <<8188, 8188, 1, -9>>, <<8486, 8486, 1, -7517>>,
       <<8490, 8490, 1, -8383>>, <<8491, 8491, 1, -8262>>,
       <<8498, 8498, 1, 28>>, <<8544, 8559, 1, 16>>, <<8579, 8579, 1, 1>>,
       <<9398, 9423, 1, 26>>, <<11264, 11311, 1, 48>>, <<11360, 11360, 1, 1>>,
       <<11362, 11362, 1, -10743>>, <<11363, 11363, 1, -3814>>,
       <<11364, 11364, 1, -10727>>, <<11367, 11371, 2, 1>>,
       <<11373, 11373, 1, -10780>>, <<11374, 11374, 1, -10749>>,
       <<11375, 11375, 1, -10783>>, <<11376, 11376, 1, -10782>>,
       <<11378, 11378, 1, 1>>, <<11381, 11381, 1, 1>>,
       <<11390, 11391, 1, -10815>>, <<11392, 11490, 2, 1>>,
       <<11499, 11501, 2, 1>>, <<11506, 11506, 1, 1>>, <<42560, 42604, 2, 1>>,
       <<42624, 42650, 2, 1>>, <<42786, 42798, 2, 1>>, <<42802, 42862, 2, 1>>,
       <<42873, 42875, 2, 1>>, <<42877, 42877, 1, -35332>>,
       <<42878, 42886, 2, 1>>, <<42891, 42891, 1, 1>>,
       <<42893, 42893, 1, -42280>>, <<42896, 42898, 2, 1>>,
       <<42902, 42920, 2, 1>>, <<42922, 42922, 1, -42308>>,
       <<42923, 42923, 1, -42319>>, <<42924, 42924, 1, -42315>>,
       <<42925, 42925, 1, -42305>>, <<42926, 42926, 1, -42308>>,
       <<42928, 42928, 1, -42258>>, <<42929, 42929, 1, -42282>>,
       <<42930, 42930, 1, -42261>>, <<42931, 42931, 1, 928>>,
       <<42932, 42946, 2, 1>>, <<42948, 42948, 1, -48>>,
       <<42949, 42949, 1, -42307>>, <<42950, 42950, 1, -35384>>,
       <<42951, 42953, 2, 1>>, <<42960, 42960, 1, 1>>, <<42966, 42968, 2, 1>>,
       <<42997, 42997, 1, 1>>, <<65313, 65338, 1, 32>>,
       <<66560, 66599, 1, 40>>, <<66736, 66771, 1, 40>>,
       <<66928, 66938, 1, 39>>, <<66940, 66954, 1, 39>>,
       <<66956, 66962, 1, 39>>, <<66964, 66965, 1, 39>>,
       <<68736, 68786, 1, 64>>, <<71840, 71871, 1, 32>>,
       <<93760, 93791, 1, 32>>, <<125184, 125217, 1, 34>> >>

\* the code points with the property Cased, as ranges <<first, last>>
CasedRanges ==
    << <<65, 90>>, <<97, 122>>, <<170, 170>>, <<181, 181>>, <<186, 186>>,
       <<192, 214>>, <<216, 246>>, <<248, 442>>, <<444, 447>>, <<452, 659>>,
       <<661, 696>>, <<704, 705>>, <<736, 740>>, <<837, 837>>, <<880, 883>>,
       <<886, 887>>, <<890, 893>>, <<895, 895>>, <<902, 902>>, <<904, 906>>,
       <<908, 908>>, <<910, 929>>, <<931, 1013>>, <<1015, 1153>>,
       <<1162, 1327>>, <<1329, 1366>>, <<1376, 1416>>, <<4256, 4293>>,
       <<4295, 4295>>, <<4301, 4301>>, <<4304, 4346>>, <<4349, 4351>>,
       <<5024, 5109>>, <<5112, 5117>>, <<7296, 7304>>, <<7312, 7354>>,
       <<7357, 7359>>, <<7424, 7615>>, <<7680, 7957>>, <<7960, 7965>>,
       <<7968, 8005>>, <<8008, 8013>>, <<8016, 8023>>, <<8025, 8025>>,
       <<8027, 8027>>, <<8029, 8029>>, <<8031, 8061>>, <<8064, 8116>>,
       <<8118, 8124>>, <<8126, 8126>>, <<8130, 8132>>, <<8134, 8140>>,
       <<8144, 8147>>, <<8150, 8155>>, <<8160, 8172>>, <<8178, 8180>>,
       <<8182, 8188>>, <<8305, 8305>>, <<8319, 8319>>, <<8336, 8348>>,
       <<8450, 8450>>, <<8455, 8455>>, <<8458, 8467>>, <<8469, 8469>>,
       <<8473, 8477>>, <<8484, 8484>>, <<8486, 8486>>, <<8488, 8488>>,
       <<8490, 8493>>, <<8495, 8500>>, <<8505, 8505>>, <<8508, 8511>>,
       <<8517, 8521>>, <<8526, 8526>>, <<8544, 8575>>, <<8579, 8580>>,
       <<9398, 9449>>, <<11264, 11492>>, <<11499, 11502>>, <<11506, 11507>>,
       <<11520, 11557>>, <<11559, 11559>>, <<11565, 11565>>, <<42560, 42605>>,
       <<42624, 42653>>, <<42786, 42887>>, <<42891, 42894>>, <<42896, 42954>>,
       <<42960, 42961>>, <<42963, 42963>>, <<42965, 42969>>, <<42997, 42998>>,
       <<43000, 43002>>, <<43824, 43866>>, <<43868, 43880>>, <<43888, 43967>>,
       <<64256, 64262>>, <<64275, 64279>>, <<65313, 65338>>, <<65345, 65370>>,
       <<66560, 66639>>, <<66736, 66771>>, <<66776, 66811>>, <<66928, 66938>>,
       <<66940, 66954>>, <<66956, 66962>>, <<66964, 66965>>, <<66967, 66977>>,
       <<66979, 66993>>, <<66995, 67001>>, <<67003, 67004>>, <<67456, 67456>>,
       <<67459, 67461>>, <<67463, 67504>>, <<67506, 67514>>, <<68736, 68786>>,
       <<68800, 68850>>, <<71840, 71903>>, <<93760, 93823>>,
       <<119808, 119892>>, <<119894, 119964>>, <<119966, 119967>>,
       <<119970, 119970>>, <<119973, 119974>>, <<119977, 119980>>,
       <<119982, 119993>>, <<119995, 119995>>, <<119997, 120003>>,
       <<120005, 120069>>, <<120071, 120074>>, <<120077, 120084>>,
       <<120086, 120092>>, <<120094, 120121>>, <<120123, 120126>>,
       <<120128, 120132>>, <<120134, 120134>>, <<120138, 120144>>,
       <<120146, 120485>>, <<120488, 120512>>, <<120514, 120538>>,
       <<120540, 120570>>, <<120572, 120596>>, <<120598, 120628>>,
       <<120630, 120654>>, <<120656, 120686>>, <<120688, 120712>>,
       <<120714, 120744>>, <<120746, 120770>>, <<120772, 120779>>,
       <<122624, 122633>>, <<122635, 122654>>, <<125184, 125251>>,
       <<127280, 127305>>, <<127312, 127337>>, <<127344, 127369>> >>

\* the code points with the property Case_Ignorable, as ranges
CaseIgnorableRanges ==
    << <<39, 39>>, <<46, 46>>, <<58, 58>>, <<94, 94>>, <<96, 96>>,
       <<168, 168>>, <<173, 173>>, <<175, 175>>, <<180, 180>>, <<183, 184>>,
       <<688, 879>>, <<884, 885>>, <<890, 890>>, <<900, 901>>, <<903, 903>>,
       <<1155, 1161>>, <<1369, 1369>>, <<1375, 1375>>, <<1425, 1469>>,
       <<1471, 1471>>, <<1473, 1474>>, <<1476, 1477>>, <<1479, 1479>>,
       <<1524, 1524>>, <<1536, 1541>>, <<1552, 1562>>, <<1564, 1564>>,
       <<1600, 1600>>, <<1611, 1631>>, <<1648, 1648>>, <<1750, 1757>>,
       <<1759, 1768>>, <<1770, 1773>>, <<1807, 1807>>, <<1809, 1809>>,
       <<1840, 1866>>, <<1958, 1968>>, <<2027, 2037>>, <<2042, 2042>>,
       <<2045, 2045>>, <<2070, 2093>>, <<2137, 2139>>, <<2184, 2184>>,
       <<2192, 2193>>, <<2200, 2207>>, <<2249, 2306>>, <<2362, 2362>>,
       <<2364, 2364>>, <<2369, 2376>>, <<2381, 2381>>, <<2385, 2391>>,
       <<2402, 2403>>, <<2417, 2417>>, <<2433, 2433>>, <<2492, 2492>>,
       <<2497, 2500>>, <<2509, 2509>>, <<2530, 2531>>, <<2558, 2558>>,
       <<2561, 2562>>, <<2620, 2620>>, <<2625, 2626>>, <<2631, 2632>>,
       <<2635, 2637>>, <<2641, 2641>>, <<2672, 2673>>, <<2677, 2677>>,
       <<2689, 2690>>, <<2748, 2748>>, <<2753, 2757>>, <<2759, 2760>>,
       <<2765, 2765>>, <<2786, 2787>>, <<2810, 2815>>, <<2817, 2817>>,
       <<2876, 2876>>, <<2879, 2879>>, <<2881, 2884>>, <<2893, 2893>>,
       <<2901, 2902>>, <<2914, 2915>>, <<2946, 2946>>, <<3008, 3008>>,
       <<3021, 3021>>, <<3072, 3072>>, <<3076, 3076>>, <<3132, 3132>>,
       <<3134, 3136>>, <<3142, 3144>>, <<3146, 3149>>, <<3157, 3158>>,
       <<3170, 3171>>, <<3201, 3201>>, <<3260, 3260>>, <<3263, 3263>>,
       <<3270, 3270>>, <<3276, 3277>>, <<3298, 3299>>, <<3328, 3329>>,
       <<3387, 3388>>, <<3393, 3396>>, <<3405, 3405>>, <<3426, 3427>>,
       <<3457, 3457>>, <<3530, 3530>>, <<3538, 3540>>, <<3542, 3542>>,
       <<3633, 3633>>, <<3636, 3642>>, <<3654, 3662>>, <<3761, 3761>>,
       <<3764, 3772>>, <<3782, 3782>>, <<3784, 3789>>, <<3864, 3865>>,
       <<3893, 3893>>, <<3895, 3895>>, <<3897, 3897>>, <<3953, 3966>>,
       <<3968, 3972>>, <<3974, 3975>>, <<3981, 3991>>, <<3993, 4028>>,
       <<4038, 4038>>, <<4141, 4144>>, <<4146, 4151>>, <<4153, 4154>>,
       <<4157, 4158>>, <<4184, 4185>>, <<4190, 4192>>, <<4209, 4212>>,
       <<4226, 4226>>, <<4229, 4230>>, <<4237, 4237>>, <<4253, 4253>>,
       <<4348, 4348>>, <<4957, 4959>>, <<5906, 5908>>, <<5938, 5939>>,
       <<5970, 5971>>, <<6002, 6003>>, <<6068, 6069>>, <<6071, 6077>>,
       <<6086, 6086>>, <<6089, 6099>>, <<6103, 6103>>, <<6109, 6109>>,
       <<6155, 6159>>, <<6211, 6211>>, <<6277, 6278>>, <<6313, 6313>>,
       <<6432, 6434>>, <<6439, 6440>>, <<6450, 6450>>, <<6457, 6459>>,
       <<6679, 6680>>, <<6683, 6683>>, <<6742, 6742>>, <<6744, 6750>>,
       <<6752, 6752>>, <<6754, 6754>>, <<6757, 6764>>, <<6771, 6780>>,
       <<6783, 6783>>, <<6823, 6823>>, <<6832, 6862>>, <<6912, 6915>>,
       <<6964, 6964>>, <<6966, 6970>>, <<6972, 6972>>, <<6978, 6978>>,
       <<7019, 7027>>, <<7040, 7041>>, <<7074, 7077>>, <<7080, 7081>>,
       <<7083, 7085>>, <<7142, 7142>>, <<7144, 7145>>, <<7149, 7149>>,
       <<7151, 7153>>, <<7212, 7219>>, <<7222, 7223>>, <<7288, 7293>>,
       <<7376, 7378>>, <<7380, 7392>>, <<7394, 7400>>, <<7405, 7405>>,
       <<7412, 7412>>, <<7416, 7417>>, <<7468, 7530>>, <<7544, 7544>>,
       <<7579, 7679>>, <<8125, 8125>>, <<8127, 8129>>, <<8141, 8143>>,
       <<8157, 8159>>, <<8173, 8175>>, <<8189, 8190>>, <<8203, 8207>>,
       <<8216, 8217>>, <<8228, 8228>>, <<8231, 8231>>, <<8234, 8238>>,
       <<8288, 8292>>, <<8294, 8303>>, <<8305, 8305>>, <<8319, 8319>>,
       <<8336, 8348>>, <<8400, 8432>>, <<11388, 11389>>, <<11503, 11505>>,
       <<11631, 11631>>, <<11647, 11647>>, <<11744, 11775>>, <<11823, 11823>>,
       <<12293, 12293>>, <<12330, 12333>>, <<12337, 12341>>, <<12347, 12347>>,
       <<12441, 12446>>, <<12540, 12542>>, <<40981, 40981>>, <<42232, 42237>>,
       <<42508, 42508>>, <<42607, 42610>>, <<42612, 42621>>, <<42623, 42623>>,
       <<42652, 42655>>, <<42736, 42737>>, <<42752, 42785>>, <<42864, 42864>>,
       <<42888, 42890>>, <<42994, 42996>>, <<43000, 43001>>, <<43010, 43010>>,
       <<43014, 43014>>, <<43019, 43019>>, <<43045, 43046>>, <<43052, 43052>>,
       <<43204, 43205>>, <<43232, 43249>>, <<43263, 43263>>, <<43302, 43309>>,
       <<43335, 43345>>, <<43392, 43394>>, <<43443, 43443>>, <<43446, 43449>>,
       <<43452, 43453>>, <<43471, 43471>>, <<43493, 43494>>, <<43561, 43566>>,
       <<43569, 43570>>, <<43573, 43574>>, <<43587, 43587>>, <<43596, 43596>>,
       <<43632, 43632>>, <<43644, 43644>>, <<43696, 43696>>, <<43698, 43700>>,
       <<43703, 43704>>, <<43710, 43711>>, <<43713, 43713>>, <<43741, 43741>>,
       <<43756, 43757>>, <<43763, 43764>>, <<43766, 43766>>, <<43867, 43871>>,
       <<43881, 43883>>, <<44005, 44005>>, <<44008, 44008>>, <<44013, 44013>>,
       <<64286, 64286>>, <<64434, 64450>>, <<65024, 65039>>, <<65043, 65043>>,
       <<65056, 65071>>, <<65106, 65106>>, <<65109, 65109>>, <<65279, 65279>>,
       <<65287, 65287>>, <<65294, 65294>>, <<65306, 65306>>, <<65342, 65342>>,
       <<65344, 65344>>, <<65392, 65392>>, <<65438, 65439>>, <<65507, 65507>>,
       <<65529, 65531>>, <<66045, 66045>>, <<66272, 66272>>, <<66422, 66426>>,
       <<67456, 67461>>, <<67463, 67504>>, <<67506, 67514>>, <<68097, 68099>>,
       <<68101, 68102>>, <<68108, 68111>>, <<68152, 68154>>, <<68159, 68159>>,
       <<68325, 68326>>, <<68900, 68903>>, <<69291, 69292>>, <<69446, 69456>>,
       <<69506, 69509>>, <<69633, 69633>>, <<69688, 69702>>, <<69744, 69744>>,
       <<69747, 69748>>, <<69759, 69761>>, <<69811, 69814>>, <<69817, 69818>>,
       <<69821, 69821>>, <<69826, 69826>>, <<69837, 69837>>, <<69888, 69890>>,
       <<69927, 69931>>, <<69933, 69940>>, <<70003, 70003>>, <<70016, 70017>>,
       <<70070, 70078>>, <<70089, 70092>>, <<70095, 70095>>, <<70191, 70193>>,
       <<70196, 70196>>, <<70198, 70199>>, <<70206, 70206>>, <<70367, 70367>>,
       <<70371, 70378>>, <<70400, 70401>>, <<70459, 70460>>, <<70464, 70464>>,
       <<70502, 70508>>, <<70512, 70516>>, <<70712, 70719>>, <<70722, 70724>>,
       <<70726, 70726>>, <<70750, 70750>>, <<70835, 70840>>, <<70842, 70842>>,
       <<70847, 70848>>, <<70850, 70851>>, <<71090, 71093>>, <<71100, 71101>>,
       <<71103, 71104>>, <<71132, 71133>>, <<71219, 71226>>, <<71229, 71229>>,
       <<71231, 71232>>, <<71339, 71339>>, <<71341, 71341>>, <<71344, 71349>>,
       <<71351, 71351>>, <<71453, 71455>>, <<71458, 71461>>, <<71463, 71467>>,
       <<71727, 71735>>, <<71737, 71738>>, <<71995, 71996>>, <<71998, 71998>>,
       <<72003, 72003>>, <<72148, 72151>>, <<72154, 72155>>, <<72160, 72160>>,
       <<72193, 72202>>, <<72243, 72248>>, <<72251, 72254>>, <<72263, 72263>>,
       <<72273, 72278>>, <<72281, 72283>>, <<72330, 72342>>, <<72344, 72345>>,
       <<72752, 72758>>, <<72760, 72765>>, <<72767, 72767>>, <<72850, 72871>>,
       <<72874, 72880>>, <<72882, 72883>>, <<72885, 72886>>, <<73009, 73014>>,
       <<73018, 73018>>, <<73020, 73021>>, <<73023, 73029>>, <<73031, 73031>>,
       <<73104, 73105>>, <<73109, 73109>>, <<73111, 73111>>, <<73459, 73460>>,
       <<78896, 78904>>, <<92912, 92916>>, <<92976, 92982>>, <<92992, 92995>>,
       <<94031, 94031>>, <<94095, 94111>>, <<94176, 94177>>, <<94179, 94180>>,
       <<110576, 110579>>, <<110581, 110587>>, <<110589, 110590>>,
       <<113821, 113822>>, <<113824, 113827>>, <<118528, 118573>>,
       <<118576, 118598>>, <<119143, 119145>>, <<119155, 119170>>,
       <<119173, 119179>>, <<119210, 119213>>, <<119362, 119364>>,
       <<121344, 121398>>, <<121403, 121452>>, <<121461, 121461>>,
       <<121476, 121476>>, <<121499, 121503>>, <<121505, 121519>>,
       <<122880, 122886>>, <<122888, 122904>>, <<122907, 122913>>,
       <<122915, 122916>>, <<122918, 122922>>, <<123184, 123197>>,
       <<123566, 123566>>, <<123628, 123631>>, <<125136, 125142>>,
       <<125252, 125259>>, <<127995, 127999>>, <<917505, 917505>>,
       <<917536, 917631>>, <<917760, 917999>> >>

InRun(c, r) == c \in r[1]..r[2] /\ (c - r[1]) % r[3] = 0

Range(seq) == {seq[i] : i \in DOMAIN seq}

\* the code points that have a simple lower-case mapping, and the mapping
HasLower == UNION {{c \in r[1]..r[2] : InRun(c, r)} : r \in Range(LowerRuns)}
SimpleLower ==
    [c \in HasLower |-> c + (CHOOSE r \in Range(LowerRuns) : InRun(c, r))[4]]

\* the Unicode properties str.lower consults around a capital sigma
CasedSet == UNION {r[1]..r[2] : r \in Range(CasedRanges)}
CaseIgnorableSet == UNION {r[1]..r[2] : r \in Range(CaseIgnorableRanges)}
Cased(c) == c \in CasedSet
CaseIgnorable(c) == c \in CaseIgnorableSet

\* str.lower on a string of one character; the result is a string
LowerChar(c) ==
    IF c = DottedI THEN <<105, CombiningDot>>
    ELSE IF c \in HasLower THEN <<SimpleLower[c]>>
    ELSE <<c>>

\* a capital sigma at position i ends a word: a cased character stands
\* before it and none after it, case-ignorable characters skipped
FinalSigma(name, i) ==
    /\ \E j \in 1..(i - 1) :
          /\ Cased(name[j])
          /\ ~CaseIgnorable(name[j])
          /\ \A k \in (j + 1)..(i - 1) : CaseIgnorable(name[k])
    /\ ~\E j \in (i + 1)..Len(name) :
          /\ Cased(name[j])
          /\ ~CaseIgnorable(name[j])
          /\ \A k \in (i + 1)..(j - 1) : CaseIgnorable(name[k])

\* what str.lower makes of the character at position i of a string
LowerAt(name, i) ==
    IF name[i] = CapitalSigma /\ FinalSigma(name, i)
    THEN <<FinalSmallSigma>>
    ELSE LowerChar(name[i])

RECURSIVE LowerFrom(_, _)
LowerFrom(name, i) ==
    IF i > Len(name) THEN <<>> ELSE LowerAt(name, i) \o LowerFrom(name, i + 1)

\* mutant of Lower: the username is compared as typed
LowerSkipped(name) == name

\* str.lower
Lower(name) == LowerFrom(name, 1)

\* pattern in text, for two strings
Contains(pattern, text) ==
    \E i \in 1..(Len(text) - Len(pattern) + 1) :
        SubSeq(text, i, i + Len(pattern) - 1) = pattern

\* bot, spam, scam, hack, premium, gift
suspicious_patterns ==
    << <<98, 111, 116>>, <<115, 112, 97, 109>>,
       <<115, 99, 97, 109>>, <<104, 97, 99, 107>>,
       <<112, 114, 101, 109, 105, 117, 109>>,
       <<103, 105, 102, 116>> >>

\* the value validate_user_data returns
ValidateResult(user) ==
    IF ~user.present THEN FALSE
    ELSE IF user.is_bot THEN FALSE
    ELSE IF user.username /= <<>>
            /\ \E k \in DOMAIN suspicious_patterns :
                   Contains(suspicious_patterns[k], Lower(user.username))
         THEN FALSE
         ELSE TRUE

validate_user_data(user) ==
    /\ ret' = [op |-> "validate_user_data", ident |-> user,
               result |-> ValidateResult(user)]
    /\ UNCHANGED <<calls, now, ticks, security, throttle_history, block_calls,
                   allowed, served>>

(***************************************************************************)
(* BotSecurityMonitor.log_security_stats: reads, logs, changes nothing.    *)
(***************************************************************************)
log_security_stats ==
    /\ ret' = [op |-> "log_security_stats"]
    /\ UNCHANGED <<calls, now, ticks, security, throttle_history, block_calls,
                   allowed, served>>

(***************************************************************************)
(* PumpFunBot: the gate section of each handler.  `user` is the update's   *)
(* effective_user.  A handler's gate section runs to its first await in    *)
(* one step; what follows it (replies, the scrape) touches no state here.  *)
(***************************************************************************)
StartMaxRequests == 3
RefreshMaxRequests == 3
CallbackMaxRequests == 2
MessageMaxRequests == 5
HandlerWindowMinutes == 1

\* PumpFunBot.is_authorized_request
is_authorized_request(user) ==
    IF ~user.present THEN FALSE
    ELSE IF user.is_bot THEN FALSE
    ELSE TRUE

\* what a handler invocation ends in
Outcome(handler, user, verdict, reason, flagged) ==
    [op |-> handler, user |-> user.id, ident |-> user, verdict |-> verdict,
     reason |-> reason, suspicious |-> flagged]

\* user.id on a missing user: AttributeError leaves the handler
Raised(handler, user) ==
    /\ ret' = Outcome(handler, user, "error", "AttributeError", FALSE)
    /\ UNCHANGED <<security, throttle_history, block_calls, allowed, served>>

\* mutant of Refused: the throttle is consulted before the early return
RefusedThrottled(handler, user, reason) ==
    /\ Throttle(user.id, MessageMaxRequests, HandlerWindowMinutes)
    /\ ret' = Outcome(handler, user, "deny", reason, FALSE)
    /\ UNCHANGED <<request_patterns, suspicious_users, blocked_users,
                   security_stats, block_calls, allowed, served>>

\* an early return before the throttle is consulted
Refused(handler, user, reason) ==
    /\ ret' = Outcome(handler, user, "deny", reason, FALSE)
    /\ UNCHANGED <<security, throttle_history, block_calls, allowed, served>>

\* the early return of a rate-limited request
Limited(handler, user, max_requests) ==
    /\ Throttle(user.id, max_requests, HandlerWindowMinutes)
    /\ ret' = Outcome(handler, user, "deny", "rate_limited", FALSE)
    /\ UNCHANGED <<request_patterns, suspicious_users, blocked_users,
                   security_stats, block_calls, allowed, served>>

\* mutant of CountStats: the update also stamps the dict with the clock
CountStatsRestamped ==
    [security_stats EXCEPT !.total_requests = @ + 1, !.start_time = now]

\* security_stats after security_monitor.security_stats['total_requests'] += 1
CountStats == [security_stats EXCEPT !.total_requests = @ + 1]

\* mutant of Accepted: a request the profiler flags is blocked and denied
AcceptedAutoBlock(handler, user, max_requests, command) ==
    /\ Throttle(user.id, max_requests, HandlerWindowMinutes)
    /\ Profile(user.id, command)
    /\ IF SuspiciousResult(user.id, command)
       THEN /\ Block(user.id)
            /\ ret' = Outcome(handler, user, "deny", "suspicious", TRUE)
            /\ UNCHANGED <<allowed, served>>
       ELSE /\ security_stats' = CountStats
            /\ allowed' = allowed + 1
            /\ served' = Append(served, <<handler, user.id, now>>)
            /\ ret' = Outcome(handler, user, "allow", "ok", FALSE)
            /\ UNCHANGED <<blocked_users, block_calls>>

\* the request passes the throttle, is profiled and counted
Accepted(handler, user, max_requests, command) ==
    /\ Throttle(user.id, max_requests, HandlerWindowMinutes)
    /\ Profile(user.id, command)
    /\ security_stats' = CountStats
    /\ allowed' = allowed + 1
    /\ served' = Append(served, <<handler, user.id, now>>)
    /\ ret' = Outcome(handler, user, "allow", "ok",
                      SuspiciousResult(user.id, command))
    /\ UNCHANGED <<blocked_users, block_calls>>

\* mutant of start_command: the identity is validated before the block check
start_commandValidatesFirst(user) ==
    /\ UNCHANGED <<calls, now, ticks>>
    /\ IF ~user.present THEN Raised("start_command", user)
       ELSE IF ~is_authorized_request(user)
            THEN Refused("start_command", user, "unauthorized")
       ELSE IF ~ValidateResult(user)
            THEN /\ Block(user.id)
                 /\ ret' = Outcome("start_command", user, "deny",
                                   "Failed user data validation", FALSE)
                 /\ UNCHANGED <<user_requests, throttle_history,
                                request_patterns, suspicious_users, allowed,
                                served>>
       ELSE IF IsBlockedResult(user.id)
            THEN Refused("start_command", user, "blocked")
       ELSE IF RateLimitedResult(user.id, StartMaxRequests, HandlerWindowMinutes)
            THEN Limited("start_command", user, StartMaxRequests)
       ELSE Accepted("start_command", user, StartMaxRequests, "start")

\* mutant of start_command: the identity is validated before the throttle is
\* consulted
start_commandValidatesBeforeThrottle(user) ==
    /\ UNCHANGED <<calls, now, ticks>>
    /\ IF ~user.present THEN Raised("start_command", user)
       ELSE IF ~is_authorized_request(user)
            THEN Refused("start_command", user, "unauthorized")
       ELSE IF IsBlockedResult(user.id)
            THEN Refused("start_command", user, "blocked")
       ELSE IF ~ValidateResult(user)
            THEN /\ Block(user.id)
                 /\ ret' = Outcome("start_command", user, "deny",
                                   "Failed user data validation", FALSE)
                 /\ UNCHANGED <<user_requests, throttle_history,
                                request_patterns, suspicious_users, allowed,
                                served>>
       ELSE IF RateLimitedResult(user.id, StartMaxRequests, HandlerWindowMinutes)
            THEN Limited("start_command", user, StartMaxRequests)
       ELSE Accepted("start_command", user, StartMaxRequests, "start")

start_command(user) ==
    /\ UNCHANGED <<calls, now, ticks>>
    /\ IF ~user.present THEN Raised("start_command", user)
       ELSE IF ~is_authorized_request(user)
            THEN Refused("start_command", user, "unauthorized")
       ELSE IF IsBlockedResult(user.id)
            THEN Refused("start_command", user, "blocked")
       ELSE IF RateLimitedResult(user.id, StartMaxRequests, HandlerWindowMinutes)
            THEN Limited("start_command", user, StartMaxRequests)
       ELSE IF ~ValidateResult(user)
            THEN /\ Throttle(user.id, StartMaxRequests, HandlerWindowMinutes)
                 /\ Block(user.id)
                 /\ ret' = Outcome("start_command", user, "deny",
                                   "Failed user data validation", FALSE)
                 /\ UNCHANGED <<request_patterns, suspicious_users, allowed,
                                served>>
       ELSE Accepted("start_command", user, StartMaxRequests, "start")

refresh_command(user) ==
    /\ UNCHANGED <<calls, now, ticks>>
    /\ IF ~user.present THEN Raised("refresh_command", user)
       ELSE IF ~is_authorized_request(user)
            THEN Refused("refresh_command", user, "unauthorized")
       ELSE IF IsBlockedResult(user.id)
            THEN Refused("refresh_command", user, "blocked")
       ELSE IF RateLimitedResult(user.id, RefreshMaxRequests, HandlerWindowMinutes)
            THEN Limited("refresh_command", user, RefreshMaxRequests)
       ELSE Accepted("refresh_command", user, RefreshMaxRequests,
                     "refresh_command")

\* mutant of refresh_callback: is_rate_limited is called with its default
\* max_requests
refresh_callbackDefaultLimit(user) ==
    /\ UNCHANGED <<calls, now, ticks>>
    /\ IF ~user.present THEN Raised("refresh_callback", user)
       ELSE IF ~is_authorized_request(user)
            THEN Refused("refresh_callback", user, "unauthorized")
       ELSE IF IsBlockedResult(user.id)
            THEN Refused("refresh_callback", user, "blocked")
       ELSE IF RateLimitedResult(user.id, MessageMaxRequests, HandlerWindowMinutes)
            THEN Limited("refresh_callback", user, MessageMaxRequests)
       ELSE Accepted("refresh_callback", user, MessageMaxRequests, "refresh")

refresh_callback(user) ==
    /\ UNCHANGED <<calls, now, ticks>>
    /\ IF ~user.present THEN Raised("refresh_callback", user)
       ELSE IF ~is_authorized_request(user)
            THEN Refused("refresh_callback", user, "unauthorized")
       ELSE IF IsBlockedResult(user.id)
            THEN Refused("refresh_callback", user, "blocked")
       ELSE IF RateLimitedResult(user.id, CallbackMaxRequests, HandlerWindowMinutes)
            THEN Limited("refresh_callback", user, CallbackMaxRequests)
       ELSE Accepted("refresh_callback", user, CallbackMaxRequests, "refresh")

\* the text-message handler: throttled, then answered; it neither validates,
\* profiles nor counts the request
unknown_command(user) ==
    /\ UNCHANGED <<calls, now, ticks>>
    /\ IF ~user.present THEN Raised("unknown_command", user)
       ELSE IF ~is_authorized_request(user)
            THEN Refused("unknown_command", user, "unauthorized")
       ELSE IF IsBlockedResult(user.id)
            THEN Refused("unknown_command", user, "blocked")
       ELSE IF RateLimitedResult(user.id, MessageMaxRequests, HandlerWindowMinutes)
            THEN Limited("unknown_command", user, MessageMaxRequests)
       ELSE /\ Throttle(user.id, MessageMaxRequests, HandlerWindowMinutes)
            /\ allowed' = allowed + 1
            /\ served' = Append(served, <<"unknown_command", user.id, now>>)
            /\ ret' = Outcome("unknown_command", user, "allow", "ok", FALSE)
            /\ UNCHANGED <<request_patterns, suspicious_users, blocked_users,
                           security_stats, block_calls>>

\* PumpFunBot.security_monitor_task, the ten-minute job
security_monitor_task == log_security_stats

(***************************************************************************)
(* The clock.                                                              *)
(***************************************************************************)
Advance(d) ==
    /\ ticks < MaxTicks
    /\ now' = now + d
    /\ ticks' = ticks + 1
    /\ ret' = [op |-> "tick"]
    /\ UNCHANGED <<security, throttle_history, block_calls, allowed, served,
                   ops, calls, tasks>>

(***************************************************************************)
(* BotSecurityMonitor.__init__                                             *)
(***************************************************************************)
Init ==
    /\ now = 0
    /\ ticks = 0
    /\ user_requests = <<>>
    /\ request_patterns = <<>>
    /\ suspicious_users = {}
    /\ blocked_users = {}
    /\ security_stats = [total_requests |-> 0, blocked_requests |-> 0,
                         suspicious_activity |-> 0, start_time |-> 0]
    /\ ret = [op |-> "init"]
    /\ streak = [u \in Users |-> NoStreak]
    /\ last_accept = [u \in Users |-> -1]
    /\ denied = [u \in Users |-> 0]
    /\ accepted_at = [u \in Users |-> <<>>]
    /\ block_calls = [u \in Users |-> 0]
    /\ allowed = 0
    /\ served = <<>>
    /\ ops = 0
    /\ calls = [c \in Callers |-> Idle]
    /\ tasks = [t \in Tasks |-> NotStarted]

(***************************************************************************)
(* The throttle on its own: direct is_rate_limited calls and the clock.    *)
(***************************************************************************)
ThrottleTick == \E d \in ThrottleSteps : Advance(d)

ThrottleCall ==
    \E u \in ThrottleUsers, m \in MaxRequestsArgs, w \in WindowArgs :
        is_rate_limited(u, m, w) /\ UNCHANGED <<ops, tasks>>

ThrottleNext == ThrottleTick \/ ThrottleCall

SpecThrottle == Init /\ [][ThrottleNext]_vars

(***************************************************************************)
(* The profiler on its own: direct check_suspicious_activity calls.        *)
(***************************************************************************)
\* input bound: the calls made at one clock reading carry one command name
OneCommandPerReading(u, c) ==
    LET l == Get(request_patterns, u) IN
    IF l = <<>> THEN TRUE
    ELSE IF l[Len(l)][2] /= now THEN TRUE
    ELSE l[Len(l)][1] = c

ProfilerTick == \E d \in ProfilerSteps : Advance(d)

ProfilerCall ==
    \E u \in ProfilerUsers, c \in Commands :
        /\ Len(Get(request_patterns, u)) < MaxPatterns
        /\ OneCommandPerReading(u, c)
        /\ check_suspicious_activity(u, c)
        /\ UNCHANGED <<ops, tasks>>

ProfilerNext == ProfilerTick \/ ProfilerCall

SpecProfiler == Init /\ [][ProfilerNext]_vars

(***************************************************************************)
(* The profiler inside one five-minute slice: calls under either command   *)
(* name at the same and at different clock readings, as the burst of       *)
(* test_suspicious_activity (three "start", then "rapid").                 *)
(***************************************************************************)
\* how often the command name changes from one entry of a list to the next
NameChanges(l) == Cardinality({i \in 1..(Len(l) - 1) : l[i][1] /= l[i + 1][1]})

BurstTick == \E d \in BurstSteps : ticks < BurstMaxTicks /\ Advance(d)

\* input bound: the user switches command at most MaxNameChanges times
BurstCall ==
    \E u \in ProfilerUsers, c \in Commands :
        /\ Len(Get(request_patterns, u)) < BurstMaxPatterns
        /\ NameChanges(Append(Get(request_patterns, u), <<c, now>>))
              <= MaxNameChanges
        /\ check_suspicious_activity(u, c)
        /\ UNCHANGED <<ops, tasks>>

BurstNext == BurstTick \/ BurstCall

SpecBurst == Init /\ [][BurstNext]_vars

(***************************************************************************)
(* The whole gate: the handlers, the periodic job and direct calls of the  *)
(* monitor's operations, for two users.                                    *)
(***************************************************************************)
alice_42 == <<97, 108, 105, 99, 101, 95, 52, 50>>
validuser == <<118, 97, 108, 105, 100, 117, 115, 101, 114>>
spambot123 == <<115, 112, 97, 109, 98, 111, 116, 49, 50, 51>>
testbot == <<116, 101, 115, 116, 98, 111, 116>>
\* upper case, a token inside a word, near misses
FreeGIFTs == <<70, 114, 101, 101, 71, 73, 70, 84, 115>>
Hacker == <<72, 97, 99, 107, 101, 114>>
b_o_t == <<98, 95, 111, 95, 116>>
premiu == <<112, 114, 101, 109, 105, 117>>
\* letters outside ASCII: hac + Kelvin sign, G + dotted I + FT, long s + pam,
\* E acute + t + E acute, a + capital sigma
hacKelvin == <<104, 97, 99, KelvinSign>>
GdottedIFT == <<71, DottedI, 70, 84>>
longSpam == <<LongS, 112, 97, 109>>
EtE == <<201, 116, 201>>
aSigma == <<97, CapitalSigma>>

\* the identities updates carry into the handlers
HandlerIdentities ==
    { None,
      User(1, alice_42, FALSE),
      User(2, FreeGIFTs, FALSE),
      User(2, testbot, TRUE) }

\* the identities validate_user_data is called with
Identities ==
    HandlerIdentities \cup
    { User(2, validuser, FALSE),
      User(1, <<>>, FALSE), User(1, <<>>, TRUE), User(1, alice_42, TRUE),
      User(2, spambot123, FALSE), User(2, Hacker, FALSE),
      User(2, b_o_t, FALSE), User(2, premiu, FALSE),
      User(2, hacKelvin, FALSE), User(2, GdottedIFT, FALSE),
      User(2, longSpam, FALSE), User(2, EtE, FALSE), User(2, aSigma, FALSE) }

\* the identities validate_user_data is called with beside the handlers
GateIdentities == { User(1, alice_42, FALSE), User(2, FreeGIFTs, FALSE) }

BlockReasons == {"Testing block functionality"}
GateSteps == {300}
\* the burst a client may have sent before the run starts
PreloadCommand == "start"

Counted(A) == ops < MaxOps /\ ops' = ops + 1 /\ UNCHANGED tasks /\ A

GateTick == \E d \in GateSteps : ticks < GateMaxTicks /\ Advance(d)

GateStart == \E user \in HandlerIdentities : Counted(start_command(user))
GateRefresh == \E user \in HandlerIdentities : Counted(refresh_command(user))
GateCallback == \E user \in HandlerIdentities : Counted(refresh_callback(user))
GateMessage == \E user \in HandlerIdentities : Counted(unknown_command(user))
GateJob == security_monitor_task /\ UNCHANGED <<ops, tasks>>

GateThrottle ==
    \E u \in Users, m \in GateMaxRequestsArgs :
        Counted(is_rate_limited(u, m, HandlerWindowMinutes))
GateProfile ==
    \E u \in Users, c \in GateCommands :
        Counted(check_suspicious_activity(u, c))
GateBlock ==
    \E u \in Users, r \in BlockReasons : Counted(block_user(u, r))
GateIsBlocked == \E u \in Users : is_user_blocked(u) /\ UNCHANGED <<ops, tasks>>
GateValidate == \E user \in GateIdentities : validate_user_data(user) /\ UNCHANGED <<ops, tasks>>

\* the monitor as constructed, or as RecentLimit direct
\* check_suspicious_activity calls for user 1 at the first clock reading
\* leave it
GateInit ==
    /\ now = 0
    /\ ticks = 0
    /\ user_requests = <<>>
    /\ request_patterns \in
          { <<>>, [u \in {1} |-> [i \in 1..RecentLimit |-> <<PreloadCommand, 0>>]] }
    /\ suspicious_users = {}
    /\ blocked_users = {}
    /\ security_stats = [total_requests |-> 0, blocked_requests |-> 0,
                         suspicious_activity |-> 0, start_time |-> 0]
    /\ ret = [op |-> "init"]
    /\ streak = [u \in Users |-> NoStreak]
    /\ last_accept = [u \in Users |-> -1]
    /\ denied = [u \in Users |-> 0]
    /\ accepted_at = [u \in Users |-> <<>>]
    /\ block_calls = [u \in Users |-> 0]
    /\ allowed = 0
    /\ served = <<>>
    /\ ops = 0
    /\ calls = [c \in Callers |-> Idle]
    /\ tasks = [t \in Tasks |-> NotStarted]

GateNext ==
    \/ GateTick
    \/ GateStart
    \/ GateRefresh
    \/ GateCallback
    \/ GateMessage
    \/ GateJob
    \/ GateThrottle
    \/ GateProfile
    \/ GateBlock
    \/ GateIsBlocked
    \/ GateValidate

SpecGate == GateInit /\ [][GateNext]_vars

(***************************************************************************)
(* The monitor on its own: direct calls of every operation, two users.     *)
(***************************************************************************)
MonitorTick == \E d \in GateSteps : ticks < GateMaxTicks /\ Advance(d)
MonitorThrottle ==
    \E u \in Users, m \in GateMaxRequestsArgs :
        Counted(is_rate_limited(u, m, HandlerWindowMinutes))
MonitorProfile ==
    \E u \in Users, c \in GateCommands :
        Counted(check_suspicious_activity(u, c))
MonitorBlock ==
    \E u \in Users, r \in BlockReasons : Counted(block_user(u, r))
MonitorIsBlocked == \E u \in Users : is_user_blocked(u) /\ UNCHANGED <<ops, tasks>>
MonitorValidate == \E user \in Identities : validate_user_data(user) /\ UNCHANGED <<ops, tasks>>
MonitorLog == log_security_stats /\ UNCHANGED <<ops, tasks>>

MonitorNext ==
    \/ MonitorTick
    \/ MonitorThrottle
    \/ MonitorProfile
    \/ MonitorBlock
    \/ MonitorIsBlocked
    \/ MonitorValidate
    \/ MonitorLog

SpecMonitor == GateInit /\ [][MonitorNext]_vars

(***************************************************************************)
(* The handlers on their own: one account sending commands, button presses *)
(* and text messages, with the clock moving inside and past the handlers'  *)
(* window.                                                                 *)
(***************************************************************************)
HandlerOnlyIdentities == { User(1, alice_42, FALSE) }

HandlerSteps == {30}

HandlerCounted(A) ==
    ops < HandlerMaxOps /\ ops' = ops + 1 /\ UNCHANGED tasks /\ A

HandlerTick == \E d \in HandlerSteps : ticks < HandlerMaxTicks /\ Advance(d)
HandlerStart ==
    \E user \in HandlerOnlyIdentities : HandlerCounted(start_command(user))
HandlerRefresh ==
    \E user \in HandlerOnlyIdentities : HandlerCounted(refresh_command(user))
HandlerCallback ==
    \E user \in HandlerOnlyIdentities : HandlerCounted(refresh_callback(user))
HandlerMessage ==
    \E user \in HandlerOnlyIdentities : HandlerCounted(unknown_command(user))

HandlerNext ==
    \/ HandlerTick
    \/ HandlerStart
    \/ HandlerRefresh
    \/ HandlerCallback
    \/ HandlerMessage

SpecHandlers == Init /\ [][HandlerNext]_vars

(***************************************************************************)
(* The handlers for one account whose username fails validation, possibly  *)
(* profiled before, while another account is blocked by a direct           *)
(* block_user call.                                                        *)
(***************************************************************************)
LimitedIdentities == { User(1, FreeGIFTs, FALSE) }

LimitedOp(A) == ops < HandlerMaxOps /\ ops' = ops + 1 /\ UNCHANGED tasks /\ A

LimitedTick == \E d \in HandlerSteps : ticks < HandlerMaxTicks /\ Advance(d)
LimitedStart == \E user \in LimitedIdentities : LimitedOp(start_command(user))
LimitedRefresh ==
    \E user \in LimitedIdentities : LimitedOp(refresh_command(user))
LimitedCallback ==
    \E user \in LimitedIdentities : LimitedOp(refresh_callback(user))
LimitedMessage ==
    \E user \in LimitedIdentities : LimitedOp(unknown_command(user))
\* input bound: the other account is blocked at most once
LimitedBlock ==
    \E r \in BlockReasons :
        /\ block_calls[2] < 1
        /\ block_user(2, r)
        /\ UNCHANGED <<ops, tasks>>

LimitedNext ==
    \/ LimitedTick
    \/ LimitedStart
    \/ LimitedRefresh
    \/ LimitedCallback
    \/ LimitedMessage
    \/ LimitedBlock

SpecLimited == GateInit /\ [][LimitedNext]_vars

(***************************************************************************)
(* Handler coroutines on the event loop: a coroutine runs from its start   *)
(* to its first await in one step, is suspended there while other          *)
(* coroutines run, and is resumed later, each time up to its next await or *)
(* to its end.  The awaited replies and the fetch are taken to succeed,    *)
(* and the clock stands still while the coroutines overlap.                *)
(***************************************************************************)
InterleavedIdentities == {User(1, alice_42, FALSE), User(2, FreeGIFTs, FALSE)}

\* the coroutine runs up to its first await, or to a return that comes
\* before any await; coroutines are numbered in the order they are started
TaskGate(t, A) ==
    /\ tasks[t].pc = "idle"
    /\ \A o \in Tasks : o < t => tasks[o].pc /= "idle"
    /\ A
    /\ tasks' = [tasks EXCEPT ![t] =
                    [pc |-> IF ret'.verdict = "allow" \/ ret'.reason = "rate_limited"
                            THEN "await" ELSE "done",
                     op |-> ret'.op, user |-> ret'.user,
                     verdict |-> ret'.verdict,
                     at |-> IF ret'.verdict = "allow" \/ ret'.reason = "rate_limited"
                            THEN 1 ELSE 0]]
    /\ UNCHANGED ops

\* the awaits a coroutine goes through: one reply on the rate-limited
\* branch and in start_command and unknown_command; refresh_command awaits
\* the loading message, the fetch and the edit inside _send_coin_data,
\* refresh_callback the answer to the button press before them
TaskAwaits(task) ==
    IF task.verdict = "deny" THEN 1
    ELSE CASE task.op = "start_command" -> 1
           [] task.op = "unknown_command" -> 1
           [] task.op = "refresh_command" -> 3
           [] task.op = "refresh_callback" -> 4

\* the task after the awaited reply arrived: suspended at its next await,
\* or finished
Resumed(task) ==
    IF task.at < TaskAwaits(task)
    THEN [task EXCEPT !.at = @ + 1]
    ELSE [task EXCEPT !.pc = "done"]

\* mutant of TaskResume: total_requests is incremented after the await
TaskResumeCounts(t) ==
    /\ tasks[t].pc = "await"
    /\ tasks' = [tasks EXCEPT ![t] = Resumed(tasks[t])]
    /\ ret' = [op |-> "resume", task |-> t]
    /\ security_stats' = [security_stats EXCEPT !.total_requests = @ + 1]
    /\ UNCHANGED <<now, ticks, user_requests, request_patterns,
                   suspicious_users, blocked_users, throttle_history,
                   block_calls, allowed, served, ops, calls>>

\* the awaited reply arrives and the coroutine runs to its next await or to
\* its end
TaskResume(t) ==
    /\ tasks[t].pc = "await"
    /\ tasks' = [tasks EXCEPT ![t] = Resumed(tasks[t])]
    /\ ret' = [op |-> "resume", task |-> t]
    /\ UNCHANGED <<now, ticks, security, throttle_history, block_calls,
                   allowed, served, ops, calls>>

InterleavedStart ==
    \E t \in Tasks, user \in InterleavedIdentities :
        TaskGate(t, start_command(user))
InterleavedRefresh ==
    \E t \in Tasks, user \in InterleavedIdentities :
        TaskGate(t, refresh_command(user))
InterleavedCallback ==
    \E t \in Tasks, user \in InterleavedIdentities :
        TaskGate(t, refresh_callback(user))
InterleavedMessage ==
    \E t \in Tasks, user \in InterleavedIdentities :
        TaskGate(t, unknown_command(user))
InterleavedResume == \E t \in Tasks : TaskResume(t)

InterleavedNext ==
    \/ InterleavedStart
    \/ InterleavedRefresh
    \/ InterleavedCallback
    \/ InterleavedMessage
    \/ InterleavedResume

SpecInterleaved == Init /\ [][InterleavedNext]_vars

(***************************************************************************)
(* The handlers serving one account while is_rate_limited is called        *)
(* directly, with a limit above the deque's capacity, for another account: *)
(* a burst of traffic inside one second of the clock.                      *)
(***************************************************************************)
BoundedDirectUsers == {2}
BoundedMaxRequestsArgs == {11}

BoundedThrottle ==
    \E u \in BoundedDirectUsers, m \in BoundedMaxRequestsArgs :
        is_rate_limited(u, m, HandlerWindowMinutes) /\ UNCHANGED <<ops, tasks>>

BoundedNext ==
    \/ BoundedThrottle
    \/ HandlerStart
    \/ HandlerRefresh
    \/ HandlerCallback
    \/ HandlerMessage

SpecBounded == Init /\ [][BoundedNext]_vars

(***************************************************************************)
(* The handlers for one account that is seen under two usernames and may   *)
(* have been profiled before.                                              *)
(***************************************************************************)
AdvisoryIdentities ==
    { User(1, alice_42, FALSE), User(1, FreeGIFTs, FALSE) }

AdvisoryTick == \E d \in GateSteps : ticks < GateMaxTicks /\ Advance(d)
AdvisoryStart ==
    \E user \in AdvisoryIdentities : Counted(start_command(user))
AdvisoryRefresh ==
    \E user \in AdvisoryIdentities : Counted(refresh_command(user))
AdvisoryCallback ==
    \E user \in AdvisoryIdentities : Counted(refresh_callback(user))
AdvisoryMessage ==
    \E user \in AdvisoryIdentities : Counted(unknown_command(user))

AdvisoryNext ==
    \/ AdvisoryTick
    \/ AdvisoryStart
    \/ AdvisoryRefresh
    \/ AdvisoryCallback
    \/ AdvisoryMessage

SpecAdvisory == GateInit /\ [][AdvisoryNext]_vars

(***************************************************************************)
(* Callers running is_rate_limited at the same time for one user with one  *)
(* (max_requests, window_minutes) pair.                                    *)
(***************************************************************************)
ConcurrentUsers == {1}
ConcurrentMaxRequestsArgs == {1, 2}
ConcurrentSteps == {61}

\* the callers that have entered is_rate_limited
Entered == {c \in Callers : calls[c].pc /= "idle"}

ConcurrentTick ==
    \E d \in ConcurrentSteps : ticks < GateMaxTicks /\ Advance(d)
ConcurrentBegin ==
    \E c \in Callers, u \in ConcurrentUsers, m \in ConcurrentMaxRequestsArgs :
        /\ \A d \in Entered : calls[d].m = m
        /\ RateBegin(c, u, m, HandlerWindowMinutes)
ConcurrentLookup == \E c \in Callers : RateLookup(c)
ConcurrentMissing == \E c \in Callers : RateMissing(c)
ConcurrentCleanTest == \E c \in Callers : RateCleanTest(c)
ConcurrentPop == \E c \in Callers : RatePop(c)
ConcurrentCheck == \E c \in Callers : RateCheck(c)
ConcurrentAppend == \E c \in Callers : RateAppend(c)

ConcurrentNext ==
    \/ ConcurrentTick
    \/ ConcurrentBegin
    \/ ConcurrentLookup
    \/ ConcurrentMissing
    \/ ConcurrentCleanTest
    \/ ConcurrentPop
    \/ ConcurrentCheck
    \/ ConcurrentAppend

SpecConcurrent == Init /\ [][ConcurrentNext]_vars

(***************************************************************************)
(* Properties of the throttle.                                             *)
(***************************************************************************)
\* the timestamps of a history that are not older than a window start
InWindow(h, start) == SelectSeq(h, LAMBDA t : t >= start)

\* how often a value occurs in a sequence
Occurrences(h, x) == Cardinality({i \in DOMAIN h : h[i] = x})

\* C1: for a user with no history, N = max_requests >= 1 and any window, the
\* 1st..N-th consecutive is_rate_limited calls made inside one window return
\* not-limited and the (N+1)-th call inside that window returns limited.
C1_BurstThenLimited ==
    (ret.op = "is_rate_limited" /\ streak[ret.user].n > 0)
        => (ret.result = (streak[ret.user].n > streak[ret.user].m))

\* C2: an is_rate_limited call that returns limited appends nothing: the user's
\* history after it is the history before it without the entries older than
\* the window start, and no other user's history changes.
C2_RejectedNotRecorded ==
    [][(ret'.op = "is_rate_limited" /\ ret'.result)
         => /\ user_requests'[ret'.user]
                 = InWindow(Get(user_requests, ret'.user),
                            now' - ret'.w * SecondsPerMinute)
            /\ \A u \in DOMAIN user_requests :
                 u /= ret'.user => user_requests'[u] = user_requests[u]]_vars

\* C2 witness: a call was rejected for a user whose history holds accepted
\* timestamps, after two earlier rejections and with the clock advanced.
C2_Witness ==
    /\ ret.op = "is_rate_limited"
    /\ ret.result
    /\ ret.after = DeniedCap
    /\ now > 0
    /\ Len(user_requests[ret.user]) >= 3

\* C3: throttling is transient.  For max_requests >= 1 a call is accepted as
\* soon as fewer than max_requests accepted timestamps are left inside its
\* window; in particular a call made more than one window after the user's
\* most recent accepted request returns not-limited, however many calls were
\* rejected in between.
C3_ThrottleIsTransient ==
    [][(ret'.op = "is_rate_limited" /\ ret'.m >= 1)
         => LET u == ret'.user
                start == now' - ret'.w * SecondsPerMinute
            IN /\ (last_accept[u] < start) => ~ret'.result
               /\ (Len(InWindow(Get(user_requests, u), start)) < ret'.m)
                      => ~ret'.result]_vars

\* C3 witness: a user accepted earlier and then rejected twice is accepted
\* again by a call made more than one window after the accepted request.
C3_Witness ==
    /\ ret.op = "is_rate_limited"
    /\ ~ret.result
    /\ ret.after = DeniedCap
    /\ ret.last >= 0
    /\ ret.last < now - ret.w * SecondsPerMinute

(***************************************************************************)
(* Properties of the profiler.                                             *)
(***************************************************************************)
\* the user's recorded actions of the trailing hour, after a call
HourCount(u) == Len(request_patterns[u])

\* the user's recorded actions of the trailing five minutes, after a call
RecentCount(u) ==
    Len(SelectSeq(request_patterns[u], LAMBDA p : p[2] > now - RecentSeconds))

\* C4 as stated: check_suspicious_activity returns false on each of the
\* first 20 actions recorded within one hour and true on the 21st.
C4_FirstTwentyFalse ==
    ret.op = "check_suspicious_activity"
        => /\ HourCount(ret.user) <= HourlyLimit => ~ret.result
           /\ HourCount(ret.user) = HourlyLimit + 1 => ret.result

\* C4 as amended: the call returns false on each of the first 20 actions
\* recorded within one hour that is not the 11th or later action of its
\* trailing five minutes, and true on the 21st action within the hour.
C4_VolumeTrigger ==
    ret.op = "check_suspicious_activity"
        => /\ (HourCount(ret.user) <= HourlyLimit
                 /\ RecentCount(ret.user) <= RecentLimit) => ~ret.result
           /\ HourCount(ret.user) = HourlyLimit + 1 => ret.result

\* C4 witness: the 21st action of the hour returned true with no more than
\* 10 actions in its trailing five minutes.
C4_Witness ==
    /\ ret.op = "check_suspicious_activity"
    /\ HourCount(ret.user) = HourlyLimit + 1
    /\ RecentCount(ret.user) <= RecentLimit
    /\ ret.result

\* C5: the call that records the 11th action of the trailing five minutes
\* returns true whatever the commands and the hourly count are; with at most
\* 10 actions in the trailing five minutes and at most 20 in the trailing
\* hour the call returns false.
C5_BurstTrigger ==
    ret.op = "check_suspicious_activity"
        => /\ RecentCount(ret.user) >= RecentLimit + 1 => ret.result
           /\ (RecentCount(ret.user) <= RecentLimit
                 /\ HourCount(ret.user) <= HourlyLimit) => ~ret.result

\* the entries of the user's trailing five minutes, after a call
RecentEntries(u) ==
    SelectSeq(request_patterns[u], LAMBDA p : p[2] > now - RecentSeconds)

\* C5 witness: the 11th action of the trailing five minutes returned true;
\* the eleven carry two command names and were recorded at two clock
\* readings, and older actions of the hour lie before them.
C5_Witness ==
    /\ ret.op = "check_suspicious_activity"
    /\ ret.result
    /\ RecentCount(ret.user) = RecentLimit + 1
    /\ HourCount(ret.user) > RecentCount(ret.user)
    /\ HourCount(ret.user) <= HourlyLimit
    /\ \E i, j \in DOMAIN RecentEntries(ret.user) :
          /\ RecentEntries(ret.user)[i][1] /= RecentEntries(ret.user)[j][1]
          /\ RecentEntries(ret.user)[i][2] /= RecentEntries(ret.user)[j][2]

(***************************************************************************)
(* Properties of the flags, the block list and the counters.               *)
(***************************************************************************)
Handlers ==
    {"start_command", "refresh_command", "refresh_callback", "unknown_command"}

\* C6: the suspicion flag is a one-way latch: no operation, handler or clock
\* advance removes a user id from suspicious_users.
C6_SuspicionLatch == [][suspicious_users \subseteq suspicious_users']_vars

\* C6 witness: block_user ran for a user who was flagged before, and the
\* flag is still set.
C6_Witness ==
    /\ ret.op = "block_user"
    /\ ret.user \in suspicious_users

\* C7: k block_user calls for u leave u in blocked_users once and raise
\* blocked_requests by k: the counter is the number of calls made, the set
\* holds exactly the users blocked at least once.
C7_BlockIdempotentMembership ==
    /\ security_stats.blocked_requests = block_calls[1] + block_calls[2]
    /\ \A u \in Users : block_calls[u] > 0 => IsBlockedResult(u)
    /\ Cardinality(blocked_users) = Cardinality({u \in Users : block_calls[u] > 0})

\* C7 witness: block_user ran twice for user 1 and for nobody else.
C7_Witness ==
    /\ block_calls[1] = 2
    /\ block_calls[2] = 0
    /\ blocked_users = {1}
    /\ security_stats.blocked_requests = 2

\* C8: a user is not blocked before a block_user call for them; once blocked
\* a user stays blocked, and every handler invocation by a blocked user ends
\* in deny.
C8_BlockedIsTerminal ==
    /\ [](\A u \in Users : IsBlockedResult(u) <=> block_calls[u] > 0)
    /\ [][/\ blocked_users \subseteq blocked_users'
           /\ (ret'.op \in Handlers /\ ret'.user \in blocked_users)
                 => ret'.verdict = "deny"]_vars

\* C8 witness: a text message of a user blocked by an earlier block_user
\* call was refused.
C8_Witness ==
    /\ ret.op = "unknown_command"
    /\ ret.user \in blocked_users
    /\ ret.verdict = "deny"
    /\ ret.reason = "blocked"
    /\ ~ret.ident.is_bot

\* the same letter, in either case
SameLetter(a, b) ==
    \/ a = b
    \/ \E i \in DOMAIN LowerCase :
          {a, b} = {LowerCase[i], UpperCase[i]}

\* token occurs in name at some offset, letter case ignored
OccursIgnoringCase(token, name) ==
    \E off \in 0..(Len(name) - Len(token)) :
        \A k \in 1..Len(token) : SameLetter(name[off + k], token[k])

\* a character of a username that str.lower turns into the letter b of a
\* token: the letter, its capital, or the Kelvin sign for k
LowersTo(a, b) ==
    \/ a = b
    \/ \E i \in DOMAIN LowerCase : a = UpperCase[i] /\ b = LowerCase[i]
    \/ a = KelvinSign /\ b = 107

\* token occurs in name at some offset, each character lower-casing to the
\* token's letter
OccursLowered(token, name) ==
    \E off \in 0..(Len(name) - Len(token)) :
        \A k \in 1..Len(token) : LowersTo(name[off + k], token[k])

\* C9 as amended: validate_user_data returns false for an absent identity,
\* for one marked as a bot and for a username whose lower-casing by
\* str.lower (A-Z and the Kelvin sign become ASCII letters) holds bot, spam,
\* scam, hack, premium or gift, true otherwise (also with no username), and
\* changes no state of the monitor.
C9_ValidateLoweredUsername ==
    /\ [](ret.op = "validate_user_data"
            => (ret.result
                  <=> /\ ret.ident.present
                      /\ ~ret.ident.is_bot
                      /\ \A k \in DOMAIN suspicious_patterns :
                            ~OccursLowered(suspicious_patterns[k],
                                           ret.ident.username)))
    /\ [][ret'.op = "validate_user_data" => UNCHANGED security]_vars

\* C9 as stated: validate_user_data returns false for an absent identity, for
\* one marked as a bot and for a username holding bot, spam, scam, hack,
\* premium or gift in any letter case, true otherwise (also with no
\* username), and changes no state of the monitor.
C9_ValidateUserData ==
    /\ [](ret.op = "validate_user_data"
            => (ret.result
                  <=> /\ ret.ident.present
                      /\ ~ret.ident.is_bot
                      /\ \A k \in DOMAIN suspicious_patterns :
                            ~OccursIgnoringCase(suspicious_patterns[k],
                                                ret.ident.username)))
    /\ [][ret'.op = "validate_user_data" => UNCHANGED security]_vars

\* C9 witness: a non-bot identity whose username is hac followed by the
\* Kelvin sign was rejected while the monitor held a blocked user.
C9_Witness ==
    /\ ret.op = "validate_user_data"
    /\ ret.ident = User(2, hacKelvin, FALSE)
    /\ ~ret.result
    /\ blocked_users /= {}

\* C10: total_requests equals the number of handler invocations whose
\* verdict was allow.
C10_TotalCountsAllowed == security_stats.total_requests = allowed

(***************************************************************************)
(* Properties of the gate the handlers run.                                *)
(***************************************************************************)
\* the max_requests a handler passes to is_rate_limited
HandlerLimit(handler) ==
    CASE handler = "start_command" -> StartMaxRequests
      [] handler = "refresh_command" -> RefreshMaxRequests
      [] handler = "refresh_callback" -> CallbackMaxRequests
      [] handler = "unknown_command" -> MessageMaxRequests

\* the accepted requests of a user inside the handlers' window, before a step
HandlerWindowCount(u) ==
    Len(InWindow(Get(user_requests, u),
                 now - HandlerWindowMinutes * SecondsPerMinute))

\* a step is a handler invocation by a user who carries an identity and, when
\* the invocation began, was neither blocked nor rate-limited
PassedThrottle ==
    /\ ret'.op \in Handlers
    /\ ret'.ident.present
    /\ ret'.user \notin blocked_users
    /\ HandlerWindowCount(ret'.user) < HandlerLimit(ret'.op)

\* C11: in each of the four handlers a user who is neither blocked nor
\* rate-limited and whose identity (not a bot account, which the handlers turn
\* away before the gate) fails validate_user_data is blocked through
\* block_user and the request is denied.
C11_ValidationBlocks ==
    [][(PassedThrottle /\ ~ret'.ident.is_bot /\ ~ValidateResult(ret'.ident))
         => /\ ret'.verdict = "deny"
            /\ ret'.user \in blocked_users'
            /\ block_calls'[ret'.user] = block_calls[ret'.user] + 1]_vars

\* C12: a handler invocation by an already-blocked user changes nothing the
\* monitor holds: throttle histories, pattern lists, suspicious_users,
\* blocked_users, total_requests and blocked_requests stay as they were.
C12_BlockedLeavesNoTrace ==
    [][(ret'.op \in Handlers /\ ret'.ident.present
          /\ ret'.user \in blocked_users)
         => /\ user_requests' = user_requests
            /\ request_patterns' = request_patterns
            /\ suspicious_users' = suspicious_users
            /\ blocked_users' = blocked_users
            /\ security_stats' = security_stats]_vars

\* C12 witness: /start of a blocked user who had recorded actions was refused
\* as blocked, and the user has no throttle history.
C12_Witness ==
    /\ ret.op = "start_command"
    /\ ret.reason = "blocked"
    /\ ~ret.ident.is_bot
    /\ Get(request_patterns, ret.user) /= <<>>
    /\ ret.user \notin DOMAIN user_requests

\* C13 as stated: when check_suspicious_activity returns true inside a
\* handler the verdict is allow, total_requests is incremented and the user
\* is not blocked; a user in suspicious_users who is neither blocked nor
\* rate-limited is always allowed.
C13_SuspicionIsAdvisory ==
    [][(ret'.op \in Handlers /\ ret'.ident.present)
         => /\ ret'.suspicious
                  => /\ ret'.verdict = "allow"
                     /\ security_stats'.total_requests
                            = security_stats.total_requests + 1
                     /\ ret'.user \notin blocked_users'
            /\ (PassedThrottle /\ ret'.user \in suspicious_users)
                  => ret'.verdict = "allow"]_vars

\* C13 as amended: the same, where the always-allowed user is one who also
\* passes the identity checks of the handler: not a bot account and, in
\* /start, accepted by validate_user_data.
C13_SuspicionAloneNeverDenies ==
    [][(ret'.op \in Handlers /\ ret'.ident.present)
         => /\ ret'.suspicious
                  => /\ ret'.verdict = "allow"
                     /\ security_stats'.total_requests
                            = security_stats.total_requests + 1
                     /\ ret'.user \notin blocked_users'
            /\ (/\ PassedThrottle
                /\ ret'.user \in suspicious_users
                /\ ~ret'.ident.is_bot
                /\ ret'.op = "start_command" => ValidateResult(ret'.ident))
                  => ret'.verdict = "allow"]_vars

\* C13 witness: the second request of a flagged user was flagged again by the
\* profiler and allowed, and nobody is blocked.
C13_Witness ==
    /\ ret.op \in Handlers
    /\ ret.suspicious
    /\ ret.verdict = "allow"
    /\ ret.user \in suspicious_users
    /\ security_stats.total_requests = 2
    /\ blocked_users = {}

\* C14: a handler invoked with an update that carries no user ends in deny
\* and raises no error.
C14_GateIsTotal ==
    (ret.op \in Handlers /\ ~ret.ident.present) => ret.verdict = "deny"

\* the requests of user u, sent to the given handlers, that were allowed
\* within the 60 seconds from clock reading t on
ServedIn(u, kinds, t) ==
    {i \in DOMAIN served :
        /\ served[i][1] \in kinds
        /\ served[i][2] = u
        /\ served[i][3] >= t
        /\ served[i][3] <= t + 60}

\* C20: in any 60-second interval, whatever the order of the handlers, one
\* user gets at most 2 refresh callbacks, at most 3 /start and /refresh
\* commands and at most 5 requests in total allowed.
C20_PerHandlerCaps ==
    \A i \in DOMAIN served :
        LET u == served[i][2]
            t == served[i][3]
        IN /\ Cardinality(ServedIn(u, {"refresh_callback"}, t)) <= 2
           /\ Cardinality(ServedIn(u, {"start_command", "refresh_command"}, t)) <= 3
           /\ Cardinality(ServedIn(u, Handlers, t)) <= 5

\* C20 witness: with two callbacks among five requests allowed in the last 60
\* seconds, at two clock readings, a text message was turned away.
C20_Witness ==
    /\ ret.op = "unknown_command"
    /\ ret.reason = "rate_limited"
    /\ now > 0
    /\ Cardinality(ServedIn(ret.user, {"refresh_callback"}, now - 60)) = 2
    /\ Cardinality(ServedIn(ret.user, Handlers, now - 60)) = 5
    /\ \E i, j \in DOMAIN served : served[i][3] /= served[j][3]

\* the user's timestamps inside the handlers' window, before a step
InHandlerWindow(u) ==
    InWindow(Get(user_requests, u),
             now' - HandlerWindowMinutes * SecondsPerMinute)

\* C25: a handler invocation of a present, authorised, unblocked user whose
\* window already holds the handler's limit is denied as rate-limited,
\* whatever validation would say of the identity; an invocation denied as
\* rate-limited adds nobody to blocked_users or suspicious_users, records
\* nothing in the pattern lists and leaves total_requests and
\* blocked_requests as they were; of the throttle histories only the
\* caller's changes, and only by losing the timestamps older than the window.
C25_LimitedLeavesOnlyEviction ==
    [][/\ (ret'.op \in Handlers /\ ret'.ident.present /\ ~ret'.ident.is_bot
            /\ ret'.user \notin blocked_users
            /\ Len(InHandlerWindow(ret'.user)) >= HandlerLimit(ret'.op))
          => (ret'.verdict = "deny" /\ ret'.reason = "rate_limited")
       /\ (ret'.op \in Handlers /\ ret'.ident.present
            /\ ret'.reason = "rate_limited")
          => /\ blocked_users' = blocked_users
             /\ suspicious_users' = suspicious_users
             /\ request_patterns' = request_patterns
             /\ security_stats' = security_stats
             /\ \A u \in Users \ {ret'.user} :
                   /\ u \in DOMAIN user_requests' <=> u \in DOMAIN user_requests
                   /\ Get(user_requests', u) = Get(user_requests, u)
             /\ user_requests'[ret'.user] = InHandlerWindow(ret'.user)]_vars

\* C25 witness: /start of a flagged user under a username that fails
\* validation was denied as rate-limited by a full window and the user is
\* not blocked, while another user is blocked and counted and an older
\* served request of the caller had already left the window.
C25_Witness ==
    /\ ret.op = "start_command"
    /\ ret.ident.present
    /\ ret.reason = "rate_limited"
    /\ ~ValidateResult(ret.ident)
    /\ ret.user \notin blocked_users
    /\ blocked_users /= {}
    /\ security_stats.blocked_requests > 0
    /\ ret.user \in suspicious_users
    /\ Len(user_requests[ret.user]) = HandlerLimit(ret.op)
    /\ \E i \in DOMAIN served :
          /\ served[i][2] = ret.user
          /\ served[i][3] < now - HandlerWindowMinutes * SecondsPerMinute

\* C27: is_rate_limited, check_suspicious_activity and block_user called for
\* one user leave every other user's throttle history, pattern list,
\* suspicion flag and blocked flag as they were, expired entries included.
C27_UsersAreIsolated ==
    [][ret'.op \in {"is_rate_limited", "check_suspicious_activity", "block_user"}
         => \A b \in Users \ {ret'.user} :
              /\ b \in DOMAIN user_requests' <=> b \in DOMAIN user_requests
              /\ Get(user_requests', b) = Get(user_requests, b)
              /\ b \in DOMAIN request_patterns' <=> b \in DOMAIN request_patterns
              /\ Get(request_patterns', b) = Get(request_patterns, b)
              /\ b \in suspicious_users' <=> b \in suspicious_users
              /\ b \in blocked_users' <=> b \in blocked_users]_vars

\* C27 witness: a throttle call for one user returned while another user
\* holds recorded actions and a throttle timestamp that has left the window.
C27_Witness ==
    /\ ret.op = "is_rate_limited"
    /\ \E b \in Users \ {ret.user} :
          /\ b \in DOMAIN user_requests
          /\ user_requests[b] /= <<>>
          /\ user_requests[b][1] < now - ret.w * SecondsPerMinute
          /\ Get(request_patterns, b) /= <<>>

\* C28: blocked_requests is never below the number of blocked users, and a
\* handler never blocks an already-blocked user: a handler invocation raises
\* blocked_requests by exactly the number of users it adds to blocked_users,
\* so the two are equal as long as only handlers call block_user.
C28_BlockedCountCoversUsers ==
    /\ [](security_stats.blocked_requests >= Cardinality(blocked_users))
    /\ [][(ret'.op \in Handlers /\ ret'.ident.present)
            => /\ security_stats'.blocked_requests - security_stats.blocked_requests
                    = Cardinality(blocked_users' \ blocked_users)
               /\ blocked_users \subseteq blocked_users'
               /\ ret'.user \in blocked_users => blocked_users' = blocked_users]_vars

\* C28 witness: /start of an account that fails validation and is blocked
\* already was turned away as blocked, and the counter equals the number of
\* blocked users.
C28_Witness ==
    /\ ret.op = "start_command"
    /\ ret.reason = "blocked"
    /\ ~ret.ident.is_bot
    /\ ~ValidateResult(ret.ident)
    /\ ret.user \in blocked_users
    /\ security_stats.blocked_requests = Cardinality(blocked_users)

\* C26: no throttle history ever holds more than 10 timestamps, whatever
\* max_requests is passed, and the history of a user who reaches
\* is_rate_limited only through the handlers never holds more than 5.
C26_HistoryBounded ==
    /\ \A u \in DOMAIN user_requests : Len(user_requests[u]) <= DequeMaxLen
    /\ \A user \in HandlerOnlyIdentities :
          Len(Get(user_requests, user.id)) <= MessageMaxRequests

\* C26 witness: eleven requests in a row of a directly throttled user were
\* accepted under a limit of 11 and 10 are kept, while the account served by
\* the handlers holds 5 timestamps.
C26_Witness ==
    /\ ret.op = "is_rate_limited"
    /\ ~ret.result
    /\ ret.m > DequeMaxLen
    /\ streak[ret.user].n = DequeMaxLen + 1
    /\ Len(user_requests[ret.user]) = DequeMaxLen
    /\ \E user \in HandlerOnlyIdentities :
          /\ user.id /= ret.user
          /\ Len(Get(user_requests, user.id)) = MessageMaxRequests

\* C16: is_user_blocked returns true exactly for the ids in blocked_users and
\* changes nothing the monitor holds; it creates no throttle or profiler
\* record for the id it is asked about.
C16_IsBlockedIsPure ==
    /\ [](ret.op = "is_user_blocked"
            => (ret.result <=> ret.user \in blocked_users))
    /\ [][ret'.op = "is_user_blocked"
            => /\ UNCHANGED security
               /\ DOMAIN user_requests' = DOMAIN user_requests
               /\ DOMAIN request_patterns' = DOMAIN request_patterns]_vars

\* C16 witness: the query returned false for an id with no throttle and no
\* profiler record while another user was blocked and one was flagged.
C16_Witness ==
    /\ ret.op = "is_user_blocked"
    /\ ~ret.result
    /\ ret.user \notin DOMAIN user_requests
    /\ ret.user \notin DOMAIN request_patterns
    /\ blocked_users /= {}
    /\ suspicious_users /= {}

\* C17: total_requests and blocked_requests never decrease and start_time
\* keeps its value, whatever operation, handler or clock advance runs.
C17_CountersMonotone ==
    [][/\ security_stats'.total_requests >= security_stats.total_requests
       /\ security_stats'.blocked_requests >= security_stats.blocked_requests
       /\ security_stats'.start_time = security_stats.start_time]_vars

\* C17 witness: requests were counted and a user was blocked after the clock
\* had moved on from the start time.
C17_Witness ==
    /\ security_stats.total_requests >= 1
    /\ security_stats.blocked_requests >= 1
    /\ now > security_stats.start_time
    /\ ret.op \in Handlers
    /\ ret.verdict = "allow"

(***************************************************************************)
(* More properties of the throttle.                                        *)
(***************************************************************************)
\* C18 as stated: the first is_rate_limited call for a user with no recorded
\* history returns not-limited and records the timestamp, whatever
\* max_requests and window_minutes are.
C18_FirstCallPasses ==
    [][(ret'.op = "is_rate_limited" /\ Get(user_requests, ret'.user) = <<>>)
         => /\ ~ret'.result
            /\ user_requests'[ret'.user] = <<now'>>]_vars

\* C18 as amended: the same for max_requests >= 1 and any window_minutes.
C18_FirstCallPassesPositiveLimit ==
    [][(ret'.op = "is_rate_limited" /\ Get(user_requests, ret'.user) = <<>>
          /\ ret'.m >= 1)
         => /\ ~ret'.result
            /\ user_requests'[ret'.user] = <<now'>>]_vars

\* C18 witness: a user whose first call, with max_requests 0, was turned away
\* had the next call, with max_requests 1, accepted and recorded.
C18_Witness ==
    /\ ret.op = "is_rate_limited"
    /\ ret.m = 1
    /\ ~ret.result
    /\ ret.after > 0
    /\ ret.last = -1
    /\ user_requests[ret.user] = <<now>>

\* C19: with window_minutes and max_requests (within the kept history)
\* changing from call to call, each is_rate_limited call returns limited
\* exactly when at least max_requests of the user's earlier accepted
\* requests are not older than now - window_minutes*60.
C19_WindowAndLimitPerCall ==
    [][(ret'.op = "is_rate_limited" /\ ret'.m <= AcceptedKept)
         => (ret'.result
               <=> Len(InWindow(accepted_at[ret'.user],
                                now' - ret'.w * SecondsPerMinute)) >= ret'.m)]_vars

\* a sequence of timestamps in non-decreasing order
Ordered(h) == \A i, j \in DOMAIN h : i < j => h[i] <= h[j]

\* C22: with the clock never running backwards every user's throttle
\* history is in non-decreasing timestamp order, and right after an
\* is_rate_limited call no timestamp left in the caller's history is older
\* than that call's window_start.
C22_HistoryOrderedAndTrimmed ==
    /\ \A u \in DOMAIN user_requests : Ordered(user_requests[u])
    /\ ret.op = "is_rate_limited"
          => \A i \in DOMAIN user_requests[ret.user] :
                user_requests[ret.user][i] >= now - ret.w * SecondsPerMinute

\* C22 witness: a call returned with two different timestamps left in the
\* history after an older accepted request had been trimmed.
C22_Witness ==
    /\ ret.op = "is_rate_limited"
    /\ \E i, j \in DOMAIN user_requests[ret.user] :
          user_requests[ret.user][i] < user_requests[ret.user][j]
    /\ \E k \in DOMAIN accepted_at[ret.user] :
          accepted_at[ret.user][k] < now - ret.w * SecondsPerMinute

\* C23: eviction is strict.  A call counts every timestamp that is not
\* older than window_start, one aged exactly window_minutes*60 seconds
\* included; such a timestamp stays in the history (when the call is limited,
\* or the deque has room for the new timestamp), and every strictly older
\* one is gone after the call.
C23_EvictionIsStrict ==
    [][ret'.op = "is_rate_limited"
         => LET u == ret'.user
                start == now' - ret'.w * SecondsPerMinute
                old == Get(user_requests, u)
                new == user_requests'[u]
            IN /\ ret'.result <=> Len(InWindow(old, start)) >= ret'.m
               /\ (ret'.result \/ Len(InWindow(old, start)) < DequeMaxLen)
                     => Occurrences(new, start) >= Occurrences(old, start)
               /\ \A i \in DOMAIN old :
                     old[i] < start => Occurrences(new, old[i]) = 0]_vars

\* C23 witness: a call was limited by a history that holds exactly
\* max_requests timestamps, the oldest aged exactly window_minutes*60.
C23_Witness ==
    /\ ret.op = "is_rate_limited"
    /\ ret.result
    /\ ret.m >= 1
    /\ Len(user_requests[ret.user]) = ret.m
    /\ user_requests[ret.user][1] = now - ret.w * SecondsPerMinute
    /\ now > 0

(***************************************************************************)
(* More properties of the profiler.                                        *)
(***************************************************************************)
\* C21: for a user already flagged, a check_suspicious_activity call that
\* leaves at most 20 recorded actions in the trailing hour and at most 10 in
\* the trailing five minutes returns false, and the user stays flagged.
C21_ResultIsPerCall ==
    [][(/\ ret'.op = "check_suspicious_activity"
        /\ ret'.user \in suspicious_users
        /\ Len(request_patterns'[ret'.user]) <= HourlyLimit
        /\ Len(SelectSeq(request_patterns'[ret'.user],
                         LAMBDA p : p[2] > now' - RecentSeconds)) <= RecentLimit)
         => /\ ~ret'.result
            /\ ret'.user \in suspicious_users']_vars

\* C21 witness: a flagged user's call, made after the burst had aged out of
\* the five-minute window, returned false and the flag is still set.
C21_Witness ==
    /\ ret.op = "check_suspicious_activity"
    /\ ~ret.result
    /\ ret.user \in suspicious_users
    /\ HourCount(ret.user) > RecentLimit + 1

\* C24: a check_suspicious_activity call appends (command, now) to the
\* user's pattern list and removes exactly the entries recorded more than one
\* hour before now: the list afterwards is the earlier list without those
\* entries, in order, with the new entry last.
C24_RecordsAndPrunes ==
    [][ret'.op = "check_suspicious_activity"
         => request_patterns'[ret'.user]
              = Append(SelectSeq(Get(request_patterns, ret'.user),
                                 LAMBDA p : p[2] >= now' - HourSeconds),
                       <<ret'.command, now'>>)]_vars

(***************************************************************************)
(* Properties of handler coroutines that overlap.                          *)
(***************************************************************************)
\* the coroutines that ran their gate section and incremented total_requests
CountedTasks ==
    {t \in Tasks : /\ tasks[t].pc /= "idle"
                   /\ tasks[t].verdict = "allow"
                   /\ tasks[t].op /= "unknown_command"}

\* C29: with coroutines interleaved at their await points only, the monitor's
\* state changes only in a step in which exactly one coroutine runs its whole
\* gate section (from its start to its first await or return), a resumed
\* coroutine changes nothing the monitor holds, and total_requests equals
\* the number of coroutines that reached the increment: none is lost.
C29_GateSectionIsOneStep ==
    /\ [](security_stats.total_requests = Cardinality(CountedTasks))
    /\ [][security' /= security
            => \E t \in Tasks :
                  /\ tasks[t].pc = "idle"
                  /\ tasks'[t].pc /= "idle"
                  /\ tasks'[t].op = ret'.op
                  /\ tasks'[t].verdict = ret'.verdict
                  /\ \A o \in Tasks \ {t} : tasks'[o] = tasks[o]]_vars

\* C29 witness: three coroutines of one user overlap: two were allowed and
\* are suspended at their awaits, one of them past its first, the third was
\* rate-limited in between, and both increments are in total_requests.
C29_Witness ==
    \E a, b, c \in Tasks :
        /\ a /= b
        /\ tasks[a].pc = "await" /\ tasks[a].verdict = "allow"
        /\ tasks[a].at > 1
        /\ tasks[b].pc = "await" /\ tasks[b].verdict = "allow"
        /\ tasks[c].pc = "await" /\ tasks[c].verdict = "deny"
        /\ tasks[a].user = tasks[b].user
        /\ tasks[b].user = tasks[c].user
        /\ tasks[a].op /= "unknown_command"
        /\ tasks[b].op /= "unknown_command"
        /\ security_stats.total_requests = 2

(***************************************************************************)
(* Properties of callers that overlap.                                     *)
(***************************************************************************)
\* the calls that returned not-limited
Passed == {c \in Callers : calls[c].pc = "done" /\ ~calls[c].result}

\* C15: with several is_rate_limited calls for one user and one
\* (max_requests, window) pair interleaved statement by statement, no call
\* fails, the calls that return not-limited with timestamps inside one window
\* never number more than max_requests, and the timestamp of every such call
\* stays in the history while no call has a window that starts after it.
C15_ConcurrentThrottleSafe ==
    /\ \A c \in Callers : calls[c].pc /= "raised"
    /\ \A c \in Passed :
          Cardinality({d \in Passed :
                          /\ calls[d].user = calls[c].user
                          /\ calls[d].t >= calls[c].t
                          /\ calls[d].t <= calls[c].t
                                             + calls[c].w * SecondsPerMinute})
              <= calls[c].m
    /\ \A c \in Passed :
          (\A d \in Entered : calls[d].start <= calls[c].t)
              => Occurrences(user_requests[calls[c].user], calls[c].t)
                    >= Cardinality({d \in Passed : /\ calls[d].user = calls[c].user
                                                   /\ calls[d].t = calls[c].t})

====
